---- MODULE Spec2Model ----
(***************************************************************************)
(* State-machine model of the sorted-photos gallery page (src/script.js)   *)
(* and of its analytics widget (src/unnamed/part_002, AnalyticsDisplay).   *)
(*                                                                         *)
(* Strings are sequences of one-character strings, so that split, pop,     *)
(* startsWith, endsWith, join and localeCompare are computed as the code   *)
(* computes them.  JSON values are tagged records: the tag t names the     *)
(* JavaScript type, and each type keeps its payload in a field of its own. *)
(***************************************************************************)
EXTENDS Integers, Sequences, FiniteSets, TLC

\* ------------------------------------------------------------------------
\* Bounds of the model
\* ------------------------------------------------------------------------
MaxOrderLen == 2
MaxManifestLen == 3
MaxNameLen == 3
MaxYearOffset == 3
MaxPhotos == 2
MaxItems == 3
MaxDownloads == 3

\* ------------------------------------------------------------------------
\* JavaScript / JSON values
\* ------------------------------------------------------------------------
Undef == [t |-> "undefined"]
Null == [t |-> "null"]
Str(chars) == [t |-> "string", s |-> chars]
Num(k) == [t |-> "number", n |-> k]
NaN == [t |-> "number", nan |-> TRUE]
Arr(elems) == [t |-> "array", a |-> elems]
EmptyObj == [t |-> "object"]
Bool(v) == [t |-> "boolean", b |-> v]

IsStr(v) == v.t = "string"
IsArr(v) == v.t = "array"
IsNum(v) == v.t = "number" /\ "n" \in DOMAIN v

\* JavaScript truthiness (the test made by if (v), v && w, v || w and !v).
Truthy(v) ==
    CASE v.t = "undefined" -> FALSE
      [] v.t = "null" -> FALSE
      [] v.t = "string" -> v.s # <<>>
      [] v.t = "number" -> IsNum(v) /\ v.n # 0
      [] v.t = "boolean" -> v.b
      [] OTHER -> TRUE

\* a || b
OrElse(a, b) == IF Truthy(a) THEN a ELSE b

\* ------------------------------------------------------------------------
\* String operations used by the page
\* ------------------------------------------------------------------------
\* s.split(sep): the pieces between the separators; always at least one.
Split(s, sep) ==
    LET RECURSIVE F(_, _, _)
        F(i, cur, acc) ==
            IF i > Len(s) THEN Append(acc, cur)
            ELSE IF s[i] = sep THEN F(i + 1, <<>>, Append(acc, cur))
            ELSE F(i + 1, Append(cur, s[i]), acc)
    IN F(1, <<>>, <<>>)

\* parts.join(sep)
Join(parts, sep) ==
    LET RECURSIVE G(_)
        G(i) == IF i > Len(parts) THEN <<>>
                ELSE IF i = Len(parts) THEN parts[i]
                ELSE parts[i] \o <<sep>> \o G(i + 1)
    IN G(1)

StartsWith(s, p) == Len(s) >= Len(p) /\ SubSeq(s, 1, Len(p)) = p
EndsWith(s, p) == Len(s) >= Len(p) /\ SubSeq(s, Len(s) - Len(p) + 1, Len(s)) = p

\* s3Key.split('/').pop(): the file name of a storage key.
FileNameOf(s3Key) ==
    LET segs == Split(s3Key, "/") IN segs[Len(segs)]

ReadySuffix == <<".", "r", "e", "a", "d", "y">>

\* ------------------------------------------------------------------------
\* extractOriginalFilename (src/script.js 127-159)
\* ------------------------------------------------------------------------
Pipe == <<"|">>

\* parts[i].startsWith('|') && parts[i].endsWith('|')
IsMethodMarker(part) == StartsWith(part, Pipe) /\ EndsWith(part, Pipe)

\* The loop of lines 144-150: startIndex (0-based, as in the code) is one past
\* the first part wrapped in pipes, and 0 when no part is.
MethodMarkerStart(parts) ==
    LET hits == {i \in 1..Len(parts) : IsMethodMarker(parts[i])}
    IN IF hits = {} THEN 0
       ELSE CHOOSE i \in hits : \A j \in hits : i <= j

\* parts[startIndex] (0-based); undefined past the end.
PartAt(parts, startIndex) ==
    IF startIndex + 1 <= Len(parts) THEN Str(parts[startIndex + 1]) ELSE Undef

\* A variant that never skips the 'x' token.
SkipExifMarker_NeverSkips(parts, startIndex) == startIndex

\* Lines 152-155: if (parts[startIndex] === 'x') startIndex++
SkipExifMarker(parts, startIndex) ==
    IF PartAt(parts, startIndex) = Str(<<"x">>) THEN startIndex + 1 ELSE startIndex

\* parts.slice(startIndex)
SliceFrom(parts, startIndex) ==
    IF startIndex + 1 > Len(parts) THEN <<>>
    ELSE SubSeq(parts, startIndex + 1, Len(parts))

extractOriginalFilename(s3Key) ==
    LET filename == FileNameOf(s3Key)
        parts == Split(filename, "_")
        startIndex == SkipExifMarker(parts, MethodMarkerStart(parts))
    IN Join(SliceFrom(parts, startIndex), "_")

\* ------------------------------------------------------------------------
\* a.filename.localeCompare(b.filename) (src/script.js 80)
\* ------------------------------------------------------------------------
\* The collation of the default locale orders punctuation before digits and
\* digits before letters, and tells letters that differ only in case apart
\* only when nothing else differs, lower case first.
CollationOrder ==
    << "_", "-", ".", "(", ")", "/", "+", "|",
       "0", "1", "2", "3", "4", "5", "6", "7", "8", "9",
       "a", "b", "d", "e", "f", "r", "x", "y" >>

UpperCase == {"A", "B"}
ToLower(c) == CASE c = "A" -> "a" [] c = "B" -> "b" [] OTHER -> c

\* The weight of a character at a level of the comparison: its place in the
\* collation order at the primary level, its case at the tertiary level.
Weight(level, c) ==
    IF level = "primary"
    THEN CHOOSE i \in 1..Len(CollationOrder) : CollationOrder[i] = ToLower(c)
    ELSE IF c \in UpperCase THEN 1 ELSE 0

\* Lexicographic comparison of two strings by the weights of their characters
\* at one level: -1, 0 or 1.
RECURSIVE CompareBy(_, _, _, _)
CompareBy(level, a, b, i) ==
    IF i > Len(a) /\ i > Len(b) THEN 0
    ELSE IF i > Len(a) THEN -1
    ELSE IF i > Len(b) THEN 1
    ELSE IF Weight(level, a[i]) < Weight(level, b[i]) THEN -1
    ELSE IF Weight(level, a[i]) > Weight(level, b[i]) THEN 1
    ELSE CompareBy(level, a, b, i + 1)

localeCompare(a, b) ==
    LET primary == CompareBy("primary", a, b, 1)
    IN IF primary # 0 THEN primary ELSE CompareBy("tertiary", a, b, 1)

\* Array.prototype.sort with the comparator of line 80.  The sort is stable:
\* entries that compare equal keep the order they had.
RECURSIVE InsertSorted(_, _)
InsertSorted(sorted, e) ==
    IF sorted = <<>> THEN <<e>>
    ELSE LET last == sorted[Len(sorted)]
         IN IF localeCompare(last.filename, e.filename) <= 0
            THEN Append(sorted, e)
            ELSE Append(InsertSorted(SubSeq(sorted, 1, Len(sorted) - 1), e), last)

RECURSIVE SortByFilename(_)
SortByFilename(entries) ==
    IF entries = <<>> THEN <<>>
    ELSE InsertSorted(SortByFilename(SubSeq(entries, 1, Len(entries) - 1)),
                      entries[Len(entries)])

\* ------------------------------------------------------------------------
\* Network responses
\* ------------------------------------------------------------------------
\* How a fetch and the reading of its body end: the request rejects, or it
\* resolves with response.ok false, or with a body response.json() cannot
\* parse, or with a parsed JSON value.
Rejected == [settled |-> "rejected", ok |-> FALSE, parsable |-> FALSE, data |-> Undef]
HttpError == [settled |-> "resolved", ok |-> FALSE, parsable |-> FALSE, data |-> Undef]
Unparsable == [settled |-> "resolved", ok |-> TRUE, parsable |-> FALSE, data |-> Undef]
Parsed(d) == [settled |-> "resolved", ok |-> TRUE, parsable |-> TRUE, data |-> d]

FetchFailed(resp) == resp.settled = "rejected" \/ ~resp.ok \/ ~resp.parsable

\* obj.name on a parsed JSON value that is neither null nor undefined.
Prop(v, name) == IF name \in DOMAIN v THEN v[name] ELSE Undef

\* The outcome of a computation that may throw.
Threw(msg) == [threw |-> TRUE, message |-> msg, entries |-> <<>>]
Returned(es) == [threw |-> FALSE, message |-> "", entries |-> es]

\* ------------------------------------------------------------------------
\* loadCustomOrder (src/script.js 106-124)
\* ------------------------------------------------------------------------
\* A variant that lets the failure of the override request escape.
loadCustomOrder_Rethrows(resp) ==
    IF FetchFailed(resp) THEN [t |-> "thrown"]
    ELSE IF resp.data.t = "null" THEN Null
    ELSE Prop(resp.data, "order")

\* The value loadCustomOrder resolves to.  Every exception inside it (a
\* rejected fetch, an unparsable body, reading a property of null) is caught
\* and yields null; a non-2xx response yields null as well.
loadCustomOrder(resp) ==
    IF resp.settled = "rejected" THEN Null
    ELSE IF ~resp.ok THEN Null
    ELSE IF ~resp.parsable THEN Null
    ELSE IF resp.data.t = "null" THEN Null
    ELSE Prop(resp.data, "order")

\* ------------------------------------------------------------------------
\* loadPhotos: building photoEntries (src/script.js 47-83)
\* ------------------------------------------------------------------------
PhotoEntry(key) ==
    [s3Key |-> key, filename |-> FileNameOf(key),
     originalFilename |-> extractOriginalFilename(key)]

\* A variant that sorts the override order like the manifest.
EntriesFromCustomOrder_Sorted(customOrder) ==
    IF ~IsArr(customOrder) THEN Threw("TypeError")
    ELSE IF \E i \in 1..Len(customOrder.a) : ~IsStr(customOrder.a[i])
    THEN Threw("TypeError")
    ELSE Returned(SortByFilename(
             [i \in 1..Len(customOrder.a) |-> PhotoEntry(customOrder.a[i].s)]))

\* Lines 51-55, for a truthy customOrder: customOrder.map throws a TypeError
\* when customOrder is no array, and s3Key.split throws one when an element is
\* no string.
EntriesFromCustomOrder(customOrder) ==
    IF ~IsArr(customOrder) THEN Threw("TypeError")
    ELSE IF \E i \in 1..Len(customOrder.a) : ~IsStr(customOrder.a[i])
    THEN Threw("TypeError")
    ELSE Returned([i \in 1..Len(customOrder.a) |-> PhotoEntry(customOrder.a[i].s)])

\* The callback of manifest.filter (line 74) throws when the entry is null
\* (a property of null is read) and when final_key is truthy but no string
\* (endsWith is no function).
FilterThrows(entry) ==
    \/ entry.t \in {"null", "undefined"}
    \/ LET k == Prop(entry, "final_key") IN Truthy(k) /\ ~IsStr(k)

\* entry.final_key && !entry.final_key.endsWith('.ready')
KeepEntry(entry) ==
    LET k == Prop(entry, "final_key")
    IN Truthy(k) /\ ~EndsWith(k.s, ReadySuffix)

\* manifest.filter(...): the kept entries, in manifest order.
RECURSIVE FilterManifest(_)
FilterManifest(seq) ==
    IF seq = <<>> THEN <<>>
    ELSE LET rest == FilterManifest(Tail(seq))
         IN IF KeepEntry(Head(seq)) THEN <<Head(seq)>> \o rest ELSE rest

\* A variant that leaves the manifest entries in manifest order.
EntriesFromManifest_Unsorted(resp) ==
    IF resp.settled = "rejected" THEN Threw("fetch rejected")
    ELSE IF ~resp.ok THEN Threw("Failed to fetch manifest")
    ELSE IF ~resp.parsable THEN Threw("SyntaxError")
    ELSE IF ~IsArr(resp.data) THEN Threw("TypeError")
    ELSE IF \E i \in 1..Len(resp.data.a) : FilterThrows(resp.data.a[i])
    THEN Threw("TypeError")
    ELSE LET kept == FilterManifest(resp.data.a)
         IN Returned([i \in 1..Len(kept) |-> PhotoEntry(kept[i].final_key.s)])

\* Lines 61-80: the manifest request, its status check, the parse of its body,
\* then filter, map and sort.
EntriesFromManifest(resp) ==
    IF resp.settled = "rejected" THEN Threw("fetch rejected")
    ELSE IF ~resp.ok THEN Threw("Failed to fetch manifest")
    ELSE IF ~resp.parsable THEN Threw("SyntaxError")
    ELSE IF ~IsArr(resp.data) THEN Threw("TypeError")
    ELSE IF \E i \in 1..Len(resp.data.a) : FilterThrows(resp.data.a[i])
    THEN Threw("TypeError")
    ELSE LET kept == FilterManifest(resp.data.a)
             mapped == [i \in 1..Len(kept) |-> PhotoEntry(kept[i].final_key.s)]
         IN Returned(SortByFilename(mapped))

\* ------------------------------------------------------------------------
\* AnalyticsDisplay (src/unnamed/part_002)
\* ------------------------------------------------------------------------
\* AGE_BUCKETS in the order Object.keys lists them (insertion order).
AGE_BUCKETS ==
    <<
       [token |-> <<"0", "1", "-", "0", "5">>, label |-> <<"0", "-", "5">>],
       [token |-> <<"0", "6", "-", "1", "0">>, label |-> <<"6", "-", "1", "0">>],
       [token |-> <<"1", "1", "-", "1", "5">>, label |-> <<"1", "1", "-", "1", "5">>],
       [token |-> <<"1", "6", "-", "2", "0">>, label |-> <<"1", "6", "-", "2", "0">>],
       [token |-> <<"2", "1", "-", "3", "0">>, label |-> <<"2", "1", "-", "3", "0">>],
       [token |-> <<"3", "1", "-", "4", "0">>, label |-> <<"3", "1", "-", "4", "0">>],
       [token |-> <<"4", "1", "-", "5", "0">>, label |-> <<"4", "1", "-", "5", "0">>],
       [token |-> <<"5", "1", "-", "6", "0">>, label |-> <<"5", "1", "-", "6", "0">>],
       [token |-> <<"6", "1", "-", "7", "0">>, label |-> <<"6", "1", "-", "7", "0">>],
       [token |-> <<"7", "1", "-", "8", "0">>, label |-> <<"7", "1", "-", "8", "0">>],
       [token |-> <<"8", "1", "+">>, label |-> <<"8", "1", "+">>]
    >>

bucketOrder == [i \in 1..Len(AGE_BUCKETS) |-> AGE_BUCKETS[i].token]
BucketTokens == {bucketOrder[i] : i \in 1..Len(bucketOrder)}
BucketIndex(token) == CHOOSE i \in 1..Len(bucketOrder) : bucketOrder[i] = token

Digits == {"0", "1", "2", "3", "4", "5", "6", "7", "8", "9"}

\* filename.match(/^(\d{2}-\d{2}|\d{2}\+)/): the matched prefix, <<>> when the
\* pattern does not match.
MatchBucketPattern(filename) ==
    IF /\ Len(filename) >= 5
       /\ filename[1] \in Digits /\ filename[2] \in Digits /\ filename[3] = "-"
       /\ filename[4] \in Digits /\ filename[5] \in Digits
    THEN SubSeq(filename, 1, 5)
    ELSE IF /\ Len(filename) >= 3
            /\ filename[1] \in Digits /\ filename[2] \in Digits /\ filename[3] = "+"
    THEN SubSeq(filename, 1, 3)
    ELSE <<>>

\* A JavaScript object with the fields the stats record may have: keys are the
\* fields present, val their values (undefined for the absent ones).
StatFields ==
    {"photoCount", "bucketCounts", "youngestBucket", "oldestBucket", "ageRangeLabel",
     "birthdate", "deathdate", "deceasedName",
     "totalFacesIndexed", "totalPhotosProcessed", "yearsOfMemories"}

EmptyStats == [keys |-> {}, val |-> [f \in StatFields |-> Undef]]
SetField(o, f, v) == [keys |-> o.keys \cup {f}, val |-> [o.val EXCEPT ![f] = v]]

\* { ...a, ...b }: the fields of both, b's value where both have one.
Spread(a, b) ==
    [keys |-> a.keys \cup b.keys,
     val |-> [f \in StatFields |-> IF f \in b.keys THEN b.val[f] ELSE a.val[f]]]

\* A variant that matches the pattern against the whole key instead of its
\* file name.
RECURSIVE CountBuckets_WholeKey(_, _)
CountBuckets_WholeKey(keys, counts) ==
    IF keys = <<>> THEN counts
    ELSE LET token == MatchBucketPattern(Head(keys))
         IN CountBuckets_WholeKey(Tail(keys),
                IF token \in BucketTokens
                THEN [counts EXCEPT ![token] = @ + 1] ELSE counts)

\* The forEach of lines 70-76: one key after the other, the count of the
\* bucket its file name starts with goes up by one.
RECURSIVE CountBuckets(_, _)
CountBuckets(keys, counts) ==
    IF keys = <<>> THEN counts
    ELSE LET token == MatchBucketPattern(FileNameOf(Head(keys)))
         IN CountBuckets(Tail(keys),
                IF token \in BucketTokens
                THEN [counts EXCEPT ![token] = @ + 1] ELSE counts)

\* The arrow of the age-range label is written "->" here.
AgeRangeLabel(youngest, oldest) ==
    AGE_BUCKETS[BucketIndex(youngest)].label \o <<" ", "-", ">", " ">>
        \o AGE_BUCKETS[BucketIndex(oldest)].label

parseFilenames(keys) ==
    LET bucketCounts == CountBuckets(keys, [b \in BucketTokens |-> 0])
        withPhotos == {i \in 1..Len(bucketOrder) : bucketCounts[bucketOrder[i]] > 0}
    IN IF withPhotos = {}
       THEN SetField(SetField(EmptyStats, "ageRangeLabel", Null), "bucketCounts", Null)
       ELSE LET youngest == bucketOrder[CHOOSE i \in withPhotos : \A j \in withPhotos : i <= j]
                oldest == bucketOrder[CHOOSE i \in withPhotos : \A j \in withPhotos : i >= j]
            IN SetField(SetField(SetField(SetField(EmptyStats,
                   "bucketCounts", [t |-> "object", counts |-> bucketCounts]),
                   "youngestBucket", Str(youngest)),
                   "oldestBucket", Str(oldest)),
                   "ageRangeLabel", Str(AgeRangeLabel(youngest, oldest)))

\* What a fetch helper hands to Promise.all: an object, or an exception.
Fulfilled(o) == [threw |-> FALSE, obj |-> o]
Raised == [threw |-> TRUE, obj |-> EmptyStats]

\* A variant that lets a failed request reject.
fetchPresentationSettings_Rethrows(resp) ==
    IF FetchFailed(resp) \/ resp.data.t = "null" THEN Raised
    ELSE Fulfilled(
        SetField(SetField(SetField(EmptyStats,
            "birthdate", OrElse(Prop(resp.data, "birthdate"), Null)),
            "deathdate", OrElse(Prop(resp.data, "deathdate"), Null)),
            "deceasedName", OrElse(Prop(resp.data, "deceased_first_name"),
                               OrElse(Prop(resp.data, "deceased_full_name"), Null))))

\* fetchPresentationSettings (lines 99-117): {} when the request rejects, the
\* status is not 2xx, the body does not parse or is null (reading a property
\* of null throws inside the try).
fetchPresentationSettings(resp) ==
    IF resp.settled = "rejected" THEN Fulfilled(EmptyStats)
    ELSE IF ~resp.ok THEN Fulfilled(EmptyStats)
    ELSE IF ~resp.parsable THEN Fulfilled(EmptyStats)
    ELSE IF resp.data.t = "null" THEN Fulfilled(EmptyStats)
    ELSE Fulfilled(
        SetField(SetField(SetField(EmptyStats,
            "birthdate", OrElse(Prop(resp.data, "birthdate"), Null)),
            "deathdate", OrElse(Prop(resp.data, "deathdate"), Null)),
            "deceasedName", OrElse(Prop(resp.data, "deceased_first_name"),
                               OrElse(Prop(resp.data, "deceased_full_name"), Null))))

\* fetchProcessingStats (lines 122-141).
fetchProcessingStats(resp) ==
    IF resp.settled = "rejected" THEN Fulfilled(EmptyStats)
    ELSE IF ~resp.ok THEN Fulfilled(EmptyStats)
    ELSE IF ~resp.parsable THEN Fulfilled(EmptyStats)
    ELSE IF resp.data.t = "null" THEN Fulfilled(EmptyStats)
    ELSE LET stats == OrElse(Prop(resp.data, "enhanced_processing_stats"), EmptyObj)
         IN Fulfilled(
             SetField(SetField(EmptyStats,
                 "totalFacesIndexed", OrElse(Prop(stats, "total_faces_indexed"), Null)),
                 "totalPhotosProcessed", OrElse(Prop(stats, "total_photos"), Null)))

\* A date string carries the year new Date(s).getFullYear() reports for it; a
\* string that is no date makes an Invalid Date, whose getFullYear() is NaN.
DateStr(y) == [t |-> "string", s |-> <<"d">>, fullYear |-> y]
NotADateStr == [t |-> "string", s |-> <<"?">>]
getFullYear(v) == IF "fullYear" \in DOMAIN v THEN Num(v.fullYear) ELSE NaN
Minus(a, b) == IF IsNum(a) /\ IsNum(b) THEN Num(a.n - b.n) ELSE NaN

\* A variant that accepts a difference of zero.
calculateYearsOfMemories_AllowsZero(stats) ==
    IF Truthy(stats.val["birthdate"]) /\ Truthy(stats.val["deathdate"])
    THEN LET years == Minus(getFullYear(stats.val["deathdate"]),
                            getFullYear(stats.val["birthdate"]))
         IN IF IsNum(years) /\ years.n >= 0 THEN years ELSE Null
    ELSE Null

\* calculateYearsOfMemories (lines 146-156).  A comparison with NaN is false.
calculateYearsOfMemories(stats) ==
    IF Truthy(stats.val["birthdate"]) /\ Truthy(stats.val["deathdate"])
    THEN LET birth == stats.val["birthdate"]
             death == stats.val["deathdate"]
             years == Minus(getFullYear(death), getFullYear(birth))
         IN IF IsNum(years) /\ years.n > 0 THEN years ELSE Null
    ELSE Null

\* renderBarChart (lines 224-259): one bar per bucket with photos, in bucket
\* order, with its label and count (the bar widths are styling).
renderBarChart(bucketCounts) ==
    LET active == {i \in 1..Len(bucketOrder) : bucketCounts.counts[bucketOrder[i]] > 0}
        RECURSIVE Bars(_)
        Bars(i) ==
            IF i > Len(bucketOrder) THEN <<>>
            ELSE IF i \in active
            THEN <<[label |-> AGE_BUCKETS[i].label,
                    count |-> bucketCounts.counts[bucketOrder[i]]]>> \o Bars(i + 1)
            ELSE Bars(i + 1)
    IN Bars(1)

\* The analytics box render builds (lines 168-210).
AnalyticsBox(stats) ==
    LET photos == OrElse(stats.val["photoCount"], stats.val["totalPhotosProcessed"])
        faceCount == stats.val["totalFacesIndexed"]
    IN [yearsLine |-> IF Truthy(stats.val["yearsOfMemories"])
                      THEN stats.val["yearsOfMemories"] ELSE Null,
        ageRangeLine |-> IF Truthy(stats.val["ageRangeLabel"])
                         THEN stats.val["ageRangeLabel"] ELSE Null,
        chart |-> IF Truthy(stats.val["bucketCounts"])
                  THEN renderBarChart(stats.val["bucketCounts"]) ELSE <<>>,
        technicalLine |-> IF Truthy(photos) /\ Truthy(faceCount) THEN "photos and faces"
                          ELSE IF Truthy(photos) THEN "photos" ELSE ""]

\* A variant of render without its gate.
render_NoGate(stats, hasPhotoCountEl) ==
    IF hasPhotoCountEl THEN <<AnalyticsBox(stats)>> ELSE <<>>

\* render (lines 161-219): what it inserts after the .photo-count element.
render(stats, hasPhotoCountEl) ==
    IF ~Truthy(stats.val["yearsOfMemories"]) /\ ~Truthy(stats.val["ageRangeLabel"])
    THEN <<>>
    ELSE IF hasPhotoCountEl THEN <<AnalyticsBox(stats)>> ELSE <<>>

\* ------------------------------------------------------------------------
\* Inputs of the page: the documents the storage service may hold
\* ------------------------------------------------------------------------
KeyA == <<"e", "/", "1", "_", "a">>
KeyB == <<"e", "/", "2", "_", "b">>
KeyC == <<"f", "/", "1", "_", "a">>
KeyD == <<"e", "/", "1", "_", "B">>
KeyReady == <<"e", "/", "1">> \o ReadySuffix
PageKeys == {KeyA, KeyB, KeyC, KeyD}

SeqsUpTo(S, n) == UNION {[1..k -> S] : k \in 0..n}

\* What the order field of custom_order.json may hold.
OrderElements == {Str(k) : k \in PageKeys \cup {KeyReady}} \cup {Num(7), Null}
OrderLists == {Arr(l) : l \in SeqsUpTo(OrderElements, MaxOrderLen)}
OrderValues ==
    OrderLists \cup {Undef, Null, Str(<<>>), Str(KeyA), Num(0), Num(7), EmptyObj}
OverrideDocs ==
    {[t |-> "object", order |-> v] : v \in OrderValues} \cup {Null, Arr(<<>>)}
OverrideResponses ==
    {Rejected, HttpError, Unparsable} \cup {Parsed(d) : d \in OverrideDocs}

\* What final_filenames.json may hold.
FinalKeyValues ==
    {Str(k) : k \in PageKeys \cup {KeyReady, <<>>}} \cup {Undef, Num(7)}
ManifestElements ==
    {[t |-> "object", final_key |-> v] : v \in FinalKeyValues} \cup {Null}
ManifestDocs ==
    {Arr(l) : l \in SeqsUpTo(ManifestElements, MaxManifestLen)} \cup {Null, EmptyObj}
ManifestResponses ==
    {Rejected, HttpError, Unparsable} \cup {Parsed(d) : d \in ManifestDocs}

NoResponse == [settled |-> "pending", ok |-> FALSE, parsable |-> FALSE, data |-> Undef]

\* ------------------------------------------------------------------------
\* State
\* ------------------------------------------------------------------------
VARIABLES
    uid,            \* the uid parameter of the page's URL (null when missing)
    pc,             \* where page load stands
    photoOrder,     \* the array of S3 keys in current order
    style,          \* style.display of loadingState, galleryContainer,
                    \* downloadSection, errorState and bottomDownload
    errorDetail,    \* the text of #errorDetail
    gallery,        \* the photo items of #photoGallery, in DOM order
    photoCount,     \* the text of #photoCount (<<>> until it is written)
    requests,       \* the requests issued so far, in order
    overrideResp,   \* how the custom_order.json request ended
    manifestResp,   \* how the final_filenames.json request ended
    fnInput,        \* a storage key handed to extractOriginalFilename
    fnResult,       \* what it returned (<<>> until it has run)
    yrInput,        \* a stats record handed to calculateYearsOfMemories
    yrResult,       \* what it returned (<<>> until it has run)
    anPhotos,       \* the photoOrder argument of AnalyticsDisplay.init
    photoCountEl,   \* whether the page has a .photo-count element
    anPc,           \* where AnalyticsDisplay.init stands
    anOutcome,      \* how the promise init returns has settled
    anRequests,     \* the requests init has issued, in order
    filenameStats,  \* what parseFilenames returned
    settingsResp,   \* how the presentation_settings.json request ended
    processingResp, \* how the pre_merge_data.json request ended
    settingsData,   \* what fetchPresentationSettings resolved to
    processingStats,\* what fetchProcessingStats resolved to
    renderedStats,  \* the stats records handed to render, in order
    analyticsBoxes, \* the analytics boxes inserted into the page
    deletesInFlight,\* the photo items whose delete request has not settled
    deleteResp,     \* the photo item and the response of the delete request
                    \* that settled last
    zipInFlight,    \* the zip requests not yet settled: the body sent and the
                    \* button label the invocation saved
    zipRequestCount,\* the number of zip requests issued so far
    zipResp,        \* the response of the zip request that settled last
    downloadBtns,   \* disabled flag and label of the .download-btn buttons
    banners,        \* the error banners whose timer is pending, and whether
                    \* each is still in the page
    overlays,       \* the number of thank-you overlays in the page
    currentThankYouOverlay, \* whether window.currentThankYouOverlay is set
    thankYouStyles, \* whether the #thank-you-styles element exists
    location        \* the URL window.location.href was set to (<<>> if never)

pageVars ==
    <<uid, pc, photoOrder, style, errorDetail, gallery, photoCount, requests,
      overrideResp, manifestResp>>

\* ------------------------------------------------------------------------
\* UI helpers (src/script.js 499-530)
\* ------------------------------------------------------------------------
showLoading(st, show) ==
    IF show
    THEN [st EXCEPT !.loadingState = "block", !.galleryContainer = "none",
                    !.downloadSection = "none"]
    ELSE [st EXCEPT !.loadingState = "none", !.galleryContainer = "block",
                    !.downloadSection = "block"]

\* A variant of showError that leaves the loading indicator up.
showError_KeepsLoading(st) ==
    [st EXCEPT !.galleryContainer = "none", !.downloadSection = "none",
               !.errorState = "block"]

showError(st) ==
    [st EXCEPT !.loadingState = "none", !.galleryContainer = "none",
               !.downloadSection = "none", !.errorState = "block"]

\* renderGallery (src/script.js 162-186): one photo item per entry, numbered
\* from 1 in the order of the entries.  el tells the elements apart; the
\* other fields are the parts of an item the handlers change later: the
\* 'deleting' class, style.transform, the removal timer of deletePhoto, and
\* the delete button's disabled flag and text.
renderGallery(photoEntries) ==
    [i \in 1..Len(photoEntries) |->
        [s3Key |-> photoEntries[i].s3Key, number |-> i, el |-> i,
         deleting |-> FALSE, transform |-> "", removeTimer |-> FALSE,
         buttonDisabled |-> FALSE, buttonText |-> "x"]]

BottomDownloadThreshold == 20

\* ------------------------------------------------------------------------
\* Page load (src/script.js 18-103)
\* ------------------------------------------------------------------------
PageInit ==
    /\ uid \in {Null, Str(<<>>), Str(<<"u">>)}
    /\ pc = "init"
    /\ photoOrder = <<>>
    /\ style = [loadingState |-> "", galleryContainer |-> "", downloadSection |-> "",
                errorState |-> "", bottomDownload |-> ""]
    /\ errorDetail = ""
    /\ gallery = <<>>
    /\ photoCount = <<>>
    /\ requests = <<>>
    /\ overrideResp = NoResponse
    /\ manifestResp = NoResponse

\* The catch of the DOMContentLoaded handler (lines 32-35): showError with the
\* error's message as detail.
LoadFails(message) ==
    /\ pc' = "failed"
    /\ style' = showError(style)
    /\ errorDetail' = IF message # "" THEN message ELSE errorDetail
    /\ UNCHANGED <<photoOrder, gallery, photoCount>>

\* Lines 85-102: the rest of loadPhotos once photoEntries is built.
LoadCompletes(photoEntries) ==
    /\ pc' = "loaded"
    /\ photoOrder' = [i \in 1..Len(photoEntries) |-> photoEntries[i].s3Key]
    /\ gallery' = renderGallery(photoEntries)
    /\ photoCount' = <<Len(photoEntries)>>
    /\ style' = showLoading(
           IF Len(photoEntries) > BottomDownloadThreshold
           THEN [style EXCEPT !.bottomDownload = "block"] ELSE style,
           FALSE)
    /\ UNCHANGED errorDetail

LoadEnds(outcome) ==
    IF outcome.threw THEN LoadFails(outcome.message) ELSE LoadCompletes(outcome.entries)

\* A variant that requests the manifest together with the override.
DOMContentLoaded_RequestsBoth ==
    /\ pc = "init"
    /\ IF ~Truthy(uid)
       THEN /\ pc' = "failed"
            /\ style' = showError(style)
            /\ UNCHANGED <<requests, errorDetail>>
       ELSE /\ pc' = "awaitCustomOrder"
            /\ style' = showLoading(style, TRUE)
            /\ requests' = <<"custom_order", "manifest">>
            /\ UNCHANGED errorDetail
    /\ UNCHANGED <<uid, photoOrder, gallery, photoCount, overrideResp, manifestResp>>

\* The DOMContentLoaded handler up to its first await: without a uid it shows
\* the error; with one, loadPhotos shows the loading indicator and
\* loadCustomOrder issues the request for custom_order.json.
DOMContentLoaded ==
    /\ pc = "init"
    /\ IF ~Truthy(uid)
       THEN /\ pc' = "failed"
            /\ style' = showError(style)
            /\ UNCHANGED <<requests, errorDetail>>
       ELSE /\ pc' = "awaitCustomOrder"
            /\ style' = showLoading(style, TRUE)
            /\ requests' = Append(requests, "custom_order")
            /\ UNCHANGED errorDetail
    /\ UNCHANGED <<uid, photoOrder, gallery, photoCount, overrideResp, manifestResp>>

\* The custom_order.json request settles.  With a truthy customOrder the page
\* is built from it; otherwise the manifest is requested.
CustomOrderSettlesFrom(responses) ==
    /\ pc = "awaitCustomOrder"
    /\ \E resp \in responses :
        /\ overrideResp' = resp
        /\ LET customOrder == loadCustomOrder(resp)
           IN IF Truthy(customOrder)
              THEN /\ LoadEnds(EntriesFromCustomOrder(customOrder))
                   /\ UNCHANGED requests
              ELSE /\ pc' = "awaitManifest"
                   /\ requests' = Append(requests, "manifest")
                   /\ UNCHANGED <<photoOrder, style, errorDetail, gallery, photoCount>>
    /\ UNCHANGED <<uid, manifestResp>>

CustomOrderSettles == CustomOrderSettlesFrom(OverrideResponses)

\* The final_filenames.json request settles.
ManifestSettlesFrom(responses) ==
    /\ pc = "awaitManifest"
    /\ \E resp \in responses :
        /\ manifestResp' = resp
        /\ LoadEnds(EntriesFromManifest(resp))
    /\ UNCHANGED <<uid, requests, overrideResp>>

ManifestSettles == ManifestSettlesFrom(ManifestResponses)

\* ------------------------------------------------------------------------
\* extractOriginalFilename applied to generated and to arbitrary keys
\* ------------------------------------------------------------------------
NameAlphabet == {"a", "x", "_", "|", "."}
Names == SeqsUpTo(NameAlphabet, MaxNameLen)
KeyDirs == {<<>>, <<"e", "/">>}
BucketRank == <<"0", "1", "-", "0", "5", "(", "3", ")">>
Methods == {<<"E", "X">>, <<>>}

\* <bucket>(<rank>)_|<method>|_<originalname>
PlainKey(dir, method, name) ==
    dir \o BucketRank \o <<"_", "|">> \o method \o <<"|", "_">> \o name

\* <bucket>(<rank>)_|<method>|_x_<originalname>
ExifKey(dir, method, name) ==
    dir \o BucketRank \o <<"_", "|">> \o method \o <<"|", "_", "x", "_">> \o name

FilenameInputs ==
    {[form |-> "plain", original |-> n, s3Key |-> PlainKey(d, m, n)] :
        d \in KeyDirs, m \in Methods, n \in Names}
    \cup {[form |-> "exif", original |-> n, s3Key |-> ExifKey(d, m, n)] :
        d \in KeyDirs, m \in Methods, n \in Names}
    \cup {[form |-> "raw", original |-> <<>>, s3Key |-> d \o n] :
        d \in KeyDirs, n \in Names}

fnVars == <<fnInput, fnResult>>

FnIdle ==
    /\ fnInput = [form |-> "raw", original |-> <<>>, s3Key |-> <<>>]
    /\ fnResult = <<>>

FnInit ==
    /\ fnInput \in FilenameInputs
    /\ fnResult = <<>>

ExtractOriginalFilename ==
    /\ fnResult = <<>>
    /\ fnResult' = <<extractOriginalFilename(fnInput.s3Key)>>
    /\ UNCHANGED fnInput

PageIdle ==
    /\ uid = Null
    /\ pc = "init"
    /\ photoOrder = <<>>
    /\ style = [loadingState |-> "", galleryContainer |-> "", downloadSection |-> "",
                errorState |-> "", bottomDownload |-> ""]
    /\ errorDetail = ""
    /\ gallery = <<>>
    /\ photoCount = <<>>
    /\ requests = <<>>
    /\ overrideResp = NoResponse
    /\ manifestResp = NoResponse

\* ------------------------------------------------------------------------
\* calculateYearsOfMemories applied to stats records
\* ------------------------------------------------------------------------
YearOf(i) == 1930 + i
Years == {YearOf(i) : i \in 0..MaxYearOffset}
DateValues == {Undef, Null, Str(<<>>), NotADateStr} \cup {DateStr(y) : y \in Years}

yrVars == <<yrInput, yrResult>>

YrIdle ==
    /\ yrInput = EmptyStats
    /\ yrResult = <<>>

YrInit ==
    /\ \E b \in DateValues, d \in DateValues :
        yrInput = SetField(SetField(EmptyStats, "birthdate", b), "deathdate", d)
    /\ yrResult = <<>>

CalculateYearsOfMemories ==
    /\ yrResult = <<>>
    /\ yrResult' = <<calculateYearsOfMemories(yrInput)>>
    /\ UNCHANGED yrInput

\* ------------------------------------------------------------------------
\* AnalyticsDisplay.init (src/unnamed/part_002 26-55)
\* ------------------------------------------------------------------------
BucketKeyA == <<"e", "/", "0", "1", "-", "0", "5", "_", "a">>
BucketKeyB == <<"8", "1", "+", "x">>
BucketKeyC == <<"2", "1", "-", "3", "0">>
UnknownBucketKey == <<"9", "9", "-", "9", "9", "a">>
ShortKey == <<"0", "1", "-", "0">>
PlainNameKey == <<"e", "/", "a">>
AnalyticsKeys ==
    {BucketKeyA, BucketKeyB, BucketKeyC, UnknownBucketKey, ShortKey, PlainNameKey}
PhotoLists == {Arr(l) : l \in SeqsUpTo(AnalyticsKeys, MaxPhotos)}

SettingsDocs ==
    {[t |-> "object", birthdate |-> b, deathdate |-> d,
      deceased_first_name |-> f, deceased_full_name |-> n] :
        b \in {Undef, DateStr(YearOf(0)), NotADateStr},
        d \in {Undef, Str(<<>>), DateStr(YearOf(0)), DateStr(YearOf(1))},
        f \in {Undef, Str(<<"f">>)},
        n \in {Undef, Str(<<"n">>)}}
    \cup {Null}
SettingsResponses ==
    {Rejected, HttpError, Unparsable} \cup {Parsed(d) : d \in SettingsDocs}

ProcessingDocs ==
    {[t |-> "object", enhanced_processing_stats |-> e] :
        e \in {Undef, Num(7)} \cup
              {[t |-> "object", total_faces_indexed |-> f, total_photos |-> p] :
                  f \in {Undef, Num(0), Num(5)}, p \in {Undef, Num(3)}}}
    \cup {Null}
ProcessingResponses ==
    {Rejected, HttpError, Unparsable} \cup {Parsed(d) : d \in ProcessingDocs}

NotFetched == [threw |-> FALSE, obj |-> EmptyStats]

anVars ==
    <<anPhotos, photoCountEl, anPc, anOutcome, anRequests, filenameStats,
      settingsResp, processingResp, settingsData, processingStats,
      renderedStats, analyticsBoxes>>

AnStart ==
    /\ anPc = "idle"
    /\ anOutcome = "pending"
    /\ anRequests = <<>>
    /\ filenameStats = EmptyStats
    /\ settingsResp = NoResponse
    /\ processingResp = NoResponse
    /\ settingsData = NotFetched
    /\ processingStats = NotFetched
    /\ renderedStats = <<>>
    /\ analyticsBoxes = <<>>

AnIdle ==
    /\ anPhotos = Arr(<<>>)
    /\ photoCountEl = TRUE
    /\ AnStart

AnInit ==
    /\ anPhotos \in PhotoLists \cup {Undef}
    /\ photoCountEl \in BOOLEAN
    /\ AnStart

\* The catch of init (lines 51-54): the error is logged and init resolves.
InitCatch == "fulfilled"

\* init up to its await: parseFilenames runs, then both fetch helpers are
\* called, each issuing its request.  parseFilenames throws when photoOrder
\* is no array, which init catches.
AnalyticsInit ==
    /\ anPc = "idle"
    /\ IF IsArr(anPhotos)
       THEN /\ filenameStats' = parseFilenames(anPhotos.a)
            /\ anRequests' = <<"presentation_settings", "pre_merge_data">>
            /\ anPc' = "fetching"
            /\ UNCHANGED anOutcome
       ELSE /\ anPc' = "done"
            /\ anOutcome' = InitCatch
            /\ UNCHANGED <<filenameStats, anRequests>>
    /\ UNCHANGED <<anPhotos, photoCountEl, settingsResp, processingResp,
                   settingsData, processingStats, renderedStats, analyticsBoxes>>

\* Lines 38-43: { photoCount, ...filenameStats, ...settingsData, ...processingStats }
CombineStats(photos, fstats, sdata, pstats) ==
    Spread(Spread(Spread(SetField(EmptyStats, "photoCount", Num(Len(photos))),
                         fstats), sdata), pstats)

\* Lines 37-54, run when Promise.all settles: if a helper threw, the catch;
\* otherwise the merge, the years of memories and render.
AnalyticsJoin(sdata, pstats) ==
    IF sdata.threw \/ pstats.threw
    THEN /\ anOutcome' = InitCatch
         /\ UNCHANGED <<renderedStats, analyticsBoxes>>
    ELSE LET merged == CombineStats(anPhotos.a, filenameStats, sdata.obj, pstats.obj)
             stats == SetField(merged, "yearsOfMemories", calculateYearsOfMemories(merged))
         IN /\ renderedStats' = Append(renderedStats, stats)
            /\ analyticsBoxes' = analyticsBoxes \o render(stats, photoCountEl)
            /\ anOutcome' = "fulfilled"

\* A variant in which init goes on as soon as the settings request settles.
SettingsSettles_JoinsEarly ==
    /\ anPc = "fetching"
    /\ settingsResp = NoResponse
    /\ \E resp \in SettingsResponses :
        /\ settingsResp' = resp
        /\ settingsData' = fetchPresentationSettings(resp)
        /\ anPc' = IF processingResp # NoResponse THEN "done" ELSE anPc
        /\ AnalyticsJoin(settingsData', processingStats)
    /\ UNCHANGED <<anPhotos, photoCountEl, anRequests, filenameStats,
                   processingResp, processingStats>>

\* The presentation_settings.json request settles; init goes on once the
\* other request has settled too.
SettingsSettlesFrom(responses) ==
    /\ anPc = "fetching"
    /\ settingsResp = NoResponse
    /\ \E resp \in responses :
        /\ settingsResp' = resp
        /\ settingsData' = fetchPresentationSettings(resp)
        /\ IF processingResp # NoResponse
           THEN anPc' = "done" /\ AnalyticsJoin(settingsData', processingStats)
           ELSE UNCHANGED <<anPc, anOutcome, renderedStats, analyticsBoxes>>
    /\ UNCHANGED <<anPhotos, photoCountEl, anRequests, filenameStats,
                   processingResp, processingStats>>

SettingsSettles == SettingsSettlesFrom(SettingsResponses)

\* The pre_merge_data.json request settles.
ProcessingSettlesFrom(responses) ==
    /\ anPc = "fetching"
    /\ processingResp = NoResponse
    /\ \E resp \in responses :
        /\ processingResp' = resp
        /\ processingStats' = fetchProcessingStats(resp)
        /\ IF settingsResp # NoResponse
           THEN anPc' = "done" /\ AnalyticsJoin(settingsData, processingStats')
           ELSE UNCHANGED <<anPc, anOutcome, renderedStats, analyticsBoxes>>
    /\ UNCHANGED <<anPhotos, photoCountEl, anRequests, filenameStats,
                   settingsResp, settingsData>>

ProcessingSettles == ProcessingSettlesFrom(ProcessingResponses)

\* ------------------------------------------------------------------------
\* The loaded page: reordering and deleting (src/script.js 202-243, 533-620)
\* ------------------------------------------------------------------------
SessionKeys == {KeyA, KeyB}
SessionUid == Str(<<"u">>)

Min(a, b) == IF a <= b THEN a ELSE b

\* seq without its i-th element, and seq with x put in front of its i-th
\* element (i counted from 1).
RemoveAt(seq, i) == SubSeq(seq, 1, i - 1) \o SubSeq(seq, i + 1, Len(seq))
InsertAt(seq, i, x) == SubSeq(seq, 1, i - 1) \o <<x>> \o SubSeq(seq, i, Len(seq))

\* The value undefined as an element of photoOrder; no storage key equals it.
UndefinedEntry == <<"undefined">>

\* const [movedItem] = photoOrder.splice(oldIndex, 1): past the end of the
\* array splice removes nothing and movedItem is undefined.
SpliceOut(order, oldIndex) ==
    IF oldIndex < Len(order)
    THEN [rest |-> RemoveAt(order, oldIndex + 1), movedItem |-> order[oldIndex + 1]]
    ELSE [rest |-> order, movedItem |-> UndefinedEntry]

\* photoOrder.splice(newIndex, 0, movedItem): a start past the end is the end.
SpliceIn(order, newIndex, movedItem) ==
    InsertAt(order, Min(newIndex, Len(order)) + 1, movedItem)

\* A variant that exchanges the two positions.
MoveItem_Swaps(order, oldIndex, newIndex) ==
    IF oldIndex < Len(order) /\ newIndex < Len(order)
    THEN [order EXCEPT ![oldIndex + 1] = order[newIndex + 1],
                       ![newIndex + 1] = order[oldIndex + 1]]
    ELSE order

\* Lines 218-219.
MoveItem(order, oldIndex, newIndex) ==
    LET out == SpliceOut(order, oldIndex)
    IN SpliceIn(out.rest, newIndex, out.movedItem)

\* What the drag-and-drop library has done to the children of #photoGallery
\* when it calls onEnd: the child at oldIndex now sits at newIndex.
SortableMove(items, oldIndex, newIndex) ==
    InsertAt(RemoveAt(items, oldIndex + 1), newIndex + 1, items[oldIndex + 1])

\* updateDisplayNumbers (lines 233-243): the items are numbered in DOM order.
updateDisplayNumbers(items) ==
    [i \in 1..Len(items) |-> [items[i] EXCEPT !.number = i]]

\* photoOrder.indexOf(s3Key): the first position (from 0) holding the key,
\* -1 when none does.
indexOf(order, s3Key) ==
    LET hits == {i \in 1..Len(order) : order[i] = s3Key}
    IN IF hits = {} THEN -1
       ELSE (CHOOSE i \in hits : \A j \in hits : i <= j) - 1

\* A variant that removes every entry equal to the key.
RemoveKey_All(order, s3Key) ==
    LET RECURSIVE F(_)
        F(s) == IF s = <<>> THEN <<>>
                ELSE IF Head(s) = s3Key THEN F(Tail(s))
                ELSE <<Head(s)>> \o F(Tail(s))
    IN F(order)

\* Lines 571-575 and 596-600.
RemoveKey(order, s3Key) ==
    LET index == indexOf(order, s3Key)
    IN IF index > -1 THEN RemoveAt(order, index + 1) ELSE order

\* error.message.includes(token)
Includes(s, token) ==
    \E i \in 1..(Len(s) - Len(token) + 1) : SubSeq(s, i, i + Len(token) - 1) = token

CorsToken == <<"C", "O", "R", "S">>
NetworkErrorToken == <<"N", "e", "t", "w", "o", "r", "k", "E", "r", "r", "o", "r">>
FailedToFetch == <<"F", "a", "i", "l", "e", "d", " ", "t", "o", " ", "f", "e", "t", "c", "h">>
NetworkErrorMessage == <<"N", "e", "t", "w", "o", "r", "k", "E", "r", "r", "o", "r", " ", "w", "h", "e", "n", " ", "a", "t", "t", "e", "m", "p", "t", "i", "n", "g", " ", "t", "o", " ", "f", "e", "t", "c", "h", " ", "r", "e", "s", "o", "u", "r", "c", "e", ".">>
CorsMessage == <<"C", "O", "R", "S", " ", "r", "e", "q", "u", "e", "s", "t", " ", "d", "i", "d", " ", "n", "o", "t", " ", "s", "u", "c", "c", "e", "e", "d">>
LowerCaseCorsMessage == <<"c", "o", "r", "s", " ", "e", "r", "r", "o", "r">>

\* How the request to the delete function may end.  fetch rejects with a
\* TypeError whose message depends on the browser.
RejectedWith(msg) ==
    [settled |-> "rejected", ok |-> FALSE, parsable |-> FALSE, data |-> Undef,
     message |-> msg]
HttpErrorWith(d) == [settled |-> "resolved", ok |-> FALSE, parsable |-> TRUE, data |-> d]

DeleteErrorMessages ==
    {FailedToFetch, NetworkErrorMessage, CorsMessage, LowerCaseCorsMessage}
DeleteResponses ==
    {RejectedWith(m) : m \in DeleteErrorMessages}
    \cup {HttpError, Unparsable,
          HttpErrorWith([t |-> "object", success |-> Bool(FALSE)]),
          Parsed([t |-> "object", success |-> Bool(TRUE)]),
          Parsed([t |-> "object", success |-> Bool(FALSE)])}

\* A variant that believes the answer: a non-2xx status or a body whose
\* success flag is falsy is an error.
DeleteApplies_HonoursAnswer(resp) ==
    IF resp.settled = "rejected"
    THEN Includes(resp.message, CorsToken) \/ Includes(resp.message, NetworkErrorToken)
    ELSE resp.ok /\ (~resp.parsable \/ Truthy(Prop(resp.data, "success")))

\* A variant that applies the delete only on a readable response.
DeleteApplies_OnlyReadable(resp) == resp.settled = "resolved" /\ resp.parsable

\* A variant that applies the delete whatever the response.
DeleteApplies_Always(resp) == TRUE

\* Whether deletePhoto goes on to remove the photo: always when fetch
\* resolves (neither the status nor the body is looked at, and a body that
\* does not parse is caught, lines 561-567); when fetch rejects, if the
\* message of the error contains 'CORS' or 'NetworkError' (line 593).
DeleteApplies(resp) ==
    IF resp.settled = "rejected"
    THEN Includes(resp.message, CorsToken) \/ Includes(resp.message, NetworkErrorToken)
    ELSE TRUE

NoDelete == [el |-> 0, resp |-> NoResponse]

deleteVars == <<deletesInFlight, deleteResp>>

DeleteIdle ==
    /\ deletesInFlight = {}
    /\ deleteResp = NoDelete

\* The onEnd callback of the Sortable (lines 212-226), for a drop of the
\* child at oldIndex onto newIndex.  An item shrunk to nothing by a delete
\* cannot be grabbed.
DragEnd ==
    /\ pc = "loaded"
    /\ \E oldIndex \in 0..(Len(gallery) - 1), newIndex \in 0..(Len(gallery) - 1) :
        /\ gallery[oldIndex + 1].transform = ""
        /\ IF oldIndex # newIndex
           THEN /\ photoOrder' = MoveItem(photoOrder, oldIndex, newIndex)
                /\ gallery' = updateDisplayNumbers(
                                  SortableMove(gallery, oldIndex, newIndex))
           ELSE UNCHANGED <<photoOrder, gallery>>
    /\ UNCHANGED <<uid, pc, style, errorDetail, photoCount, requests,
                   overrideResp, manifestResp, deleteVars>>

\* A variant that takes the key out of photoOrder as soon as the user has
\* confirmed, before the request is sent.
DeleteClick_Optimistic ==
    /\ pc = "loaded"
    /\ \E i \in 1..Len(gallery), confirmed \in BOOLEAN :
        /\ ~gallery[i].buttonDisabled
        /\ IF confirmed
           THEN /\ gallery' = [gallery EXCEPT ![i].deleting = TRUE,
                                              ![i].buttonDisabled = TRUE,
                                              ![i].buttonText = "..."]
                /\ deletesInFlight' = deletesInFlight \cup
                       {[el |-> gallery[i].el, uid |-> uid, s3_key |-> gallery[i].s3Key]}
                /\ photoOrder' = RemoveKey(photoOrder, gallery[i].s3Key)
           ELSE UNCHANGED <<gallery, deletesInFlight, photoOrder>>
    /\ UNCHANGED <<uid, pc, style, errorDetail, photoCount, requests,
                   overrideResp, manifestResp, deleteResp>>

\* deletePhoto up to its await (lines 533-558), on a click on an item's
\* delete button: nothing happens unless the user confirms; then the item is
\* marked and the request leaves with the uid and the item's key.
DeleteClick ==
    /\ pc = "loaded"
    /\ \E i \in 1..Len(gallery), confirmed \in BOOLEAN :
        /\ ~gallery[i].buttonDisabled
        /\ IF confirmed
           THEN /\ gallery' = [gallery EXCEPT ![i].deleting = TRUE,
                                              ![i].buttonDisabled = TRUE,
                                              ![i].buttonText = "..."]
                /\ deletesInFlight' = deletesInFlight \cup
                       {[el |-> gallery[i].el, uid |-> uid, s3_key |-> gallery[i].s3Key]}
           ELSE UNCHANGED <<gallery, deletesInFlight>>
    /\ UNCHANGED <<uid, pc, photoOrder, style, errorDetail, photoCount, requests,
                   overrideResp, manifestResp, deleteResp>>

\* deletePhoto after its awaits (lines 560-619), when the request settles.
\* Either the key leaves photoOrder, the item is shrunk and its removal is
\* set for 300 ms later, or an alert is shown and the item is reset.
DeleteSettlesFrom(responses) ==
    /\ \E req \in deletesInFlight, resp \in responses :
        LET i == CHOOSE j \in 1..Len(gallery) : gallery[j].el = req.el
        IN /\ deletesInFlight' = deletesInFlight \ {req}
           /\ deleteResp' = [el |-> req.el, resp |-> resp]
           /\ IF DeleteApplies(resp)
              THEN /\ photoOrder' = RemoveKey(photoOrder, req.s3_key)
                   /\ gallery' = [gallery EXCEPT ![i].transform = "scale(0)",
                                                 ![i].removeTimer = TRUE]
              ELSE /\ gallery' = [gallery EXCEPT ![i].deleting = FALSE,
                                                 ![i].buttonDisabled = FALSE,
                                                 ![i].buttonText = "x"]
                   /\ UNCHANGED photoOrder
    /\ UNCHANGED <<uid, pc, style, errorDetail, photoCount, requests,
                   overrideResp, manifestResp>>

DeleteSettles == DeleteSettlesFrom(DeleteResponses)

\* The callback of the 300 ms timer (lines 581-587 and 606-610).
RemoveTimerFires ==
    /\ \E i \in 1..Len(gallery) :
        /\ gallery[i].removeTimer
        /\ gallery' = updateDisplayNumbers(RemoveAt(gallery, i))
    /\ photoCount' = <<Len(photoOrder)>>
    /\ UNCHANGED <<uid, pc, photoOrder, style, errorDetail, requests,
                   overrideResp, manifestResp, deleteVars>>

\* The page after loadPhotos has completed with the override order keys:
\* the state page load reaches from a custom_order.json listing them.
LoadedWith(keys) ==
    /\ uid = SessionUid
    /\ pc = "loaded"
    /\ photoOrder = keys
    /\ gallery = renderGallery([i \in 1..Len(keys) |-> PhotoEntry(keys[i])])
    /\ photoCount = <<Len(keys)>>
    /\ style = [loadingState |-> "none", galleryContainer |-> "block",
                downloadSection |-> "block", errorState |-> "", bottomDownload |-> ""]
    /\ errorDetail = ""
    /\ requests = <<"custom_order">>
    /\ overrideResp = Parsed([t |-> "object",
                              order |-> Arr([i \in 1..Len(keys) |-> Str(keys[i])])])
    /\ manifestResp = NoResponse

SessionInit == \E keys \in SeqsUpTo(SessionKeys, MaxItems) : LoadedWith(keys)

\* ------------------------------------------------------------------------
\* The loaded page: downloading (src/script.js 246-496)
\* ------------------------------------------------------------------------
\* JSON.stringify writes an undefined element of an array as null.
PhotoOrderJson(order) ==
    Arr([i \in 1..Len(order) |->
            IF order[i] = UndefinedEntry THEN Null ELSE Str(order[i])])

\* A variant that leaves out the photos whose delete has been requested.
ZipBody_OmitsPendingDeletes(u, order) ==
    [t |-> "object", uid |-> u,
     photo_order |-> PhotoOrderJson(
         SelectSeq(order, LAMBDA k : \A req \in deletesInFlight : req.s3_key # k))]

\* The body of the zip request (lines 267-270).
ZipBody(u, order) == [t |-> "object", uid |-> u, photo_order |-> PhotoOrderJson(order)]

PageUrl == Str(<<"p">>)
DownloadUrl == Str(<<"z">>)

\* What the zip function may answer.
ZipDocs ==
    {[t |-> "object", success |-> s, download_url |-> u] :
        s \in {Undef, Bool(TRUE), Bool(FALSE)},
        u \in {Undef, Str(<<>>), DownloadUrl}}
    \cup {Null, Num(7)}
ZipResponses ==
    {RejectedWith(FailedToFetch), HttpError, Unparsable,
     HttpErrorWith([t |-> "object", error |-> Str(<<"e">>)]), HttpErrorWith(Null)}
    \cup {Parsed(d) : d \in ZipDocs}

\* A variant that takes every 2xx response for a success.
ZipSucceeded_OkSuffices(resp) == resp.settled = "resolved" /\ resp.ok

\* Whether downloadAll reaches showDownloadSuccess (lines 273-283): fetch
\* resolved with a 2xx status, the body parsed, and result.success and
\* result.download_url are truthy.  Everything else ends in the catch: a
\* rejection, a non-2xx status (whatever its body), a body that does not
\* parse, a null body (reading result.success throws), a falsy flag or URL.
ZipSucceeded(resp) ==
    /\ resp.settled = "resolved"
    /\ resp.ok
    /\ resp.parsable
    /\ resp.data.t # "null"
    /\ Truthy(Prop(resp.data, "success"))
    /\ Truthy(Prop(resp.data, "download_url"))

\* The label the download buttons have in the page's HTML, and the one
\* downloadAll gives them while it waits.
ButtonLabel == "Download All"
BusyLabel == "Preparing download..."

downloadVars ==
    <<zipInFlight, zipRequestCount, zipResp, downloadBtns, banners, overlays,
      currentThankYouOverlay, thankYouStyles, location>>

DownloadIdle ==
    /\ zipInFlight = <<>>
    /\ zipRequestCount = 0
    /\ zipResp = NoResponse
    /\ downloadBtns = [disabled |-> FALSE, text |-> ButtonLabel]
    /\ banners = <<>>
    /\ overlays = 0
    /\ currentThankYouOverlay = FALSE
    /\ thankYouStyles = FALSE
    /\ location = PageUrl

\* downloadAll up to its await (lines 246-271), on a click on an enabled
\* download button or on the overlay's 'Download Again' button: the label of
\* #downloadBtn is saved, every download button is disabled and relabelled,
\* and the request leaves with the uid and photoOrder as they are now.
DownloadAll ==
    /\ pc = "loaded"
    /\ zipRequestCount < MaxDownloads
    /\ \/ (style.downloadSection = "block" /\ ~downloadBtns.disabled)
       \/ overlays > 0
    /\ zipInFlight' = Append(zipInFlight,
           [body |-> ZipBody(uid, photoOrder), originalText |-> downloadBtns.text])
    /\ zipRequestCount' = zipRequestCount + 1
    /\ downloadBtns' = [disabled |-> TRUE, text |-> BusyLabel]
    /\ UNCHANGED <<zipResp, banners, overlays, currentThankYouOverlay,
                   thankYouStyles, location>>

\* showDownloadSuccess (lines 306-463) followed by line 287.
showDownloadSuccess(downloadUrl) ==
    /\ overlays' = overlays + 1
    /\ currentThankYouOverlay' = TRUE
    /\ thankYouStyles' = TRUE
    /\ location' = downloadUrl
    /\ UNCHANGED banners

\* showDownloadError (lines 474-496): a banner is appended to the page and
\* its 10 s timer is started.
showDownloadError ==
    /\ banners' = Append(banners, [attached |-> TRUE])
    /\ UNCHANGED <<overlays, currentThankYouOverlay, thankYouStyles, location>>

\* downloadAll after its awaits (lines 273-302), when one of the requests in
\* flight settles: the overlay and the navigation, or the error banner; then
\* the finally block enables the buttons and gives them the saved label.
ZipSettlesFrom(responses) ==
    /\ \E i \in 1..Len(zipInFlight), resp \in responses :
        /\ zipInFlight' = RemoveAt(zipInFlight, i)
        /\ zipResp' = resp
        /\ IF ZipSucceeded(resp)
           THEN showDownloadSuccess(Prop(resp.data, "download_url"))
           ELSE showDownloadError
        /\ downloadBtns' = [disabled |-> FALSE, text |-> zipInFlight[i].originalText]
    /\ UNCHANGED zipRequestCount

ZipSettles == ZipSettlesFrom(ZipResponses)

\* closeThankYou (lines 466-471), on a click on the Close button of an
\* overlay: the overlay the global refers to is removed, if there is one.
CloseThankYou ==
    /\ overlays > 0
    /\ IF currentThankYouOverlay
       THEN /\ overlays' = overlays - 1
            /\ currentThankYouOverlay' = FALSE
       ELSE UNCHANGED <<overlays, currentThankYouOverlay>>
    /\ UNCHANGED <<zipInFlight, zipRequestCount, zipResp, downloadBtns, banners,
                   thankYouStyles, location>>

\* The close button of an error banner (line 484).
BannerClose ==
    /\ \E i \in 1..Len(banners) :
        /\ banners[i].attached
        /\ banners' = [banners EXCEPT ![i].attached = FALSE]
    /\ UNCHANGED <<zipInFlight, zipRequestCount, zipResp, downloadBtns, overlays,
                   currentThankYouOverlay, thankYouStyles, location>>

\* The 10 s timer of an error banner (lines 491-495): the banner is removed
\* if it is still in the page.
BannerTimerFires ==
    /\ \E i \in 1..Len(banners) : banners' = RemoveAt(banners, i)
    /\ UNCHANGED <<zipInFlight, zipRequestCount, zipResp, downloadBtns, overlays,
                   currentThankYouOverlay, thankYouStyles, location>>

BannersShown == Cardinality({i \in 1..Len(banners) : banners[i].attached})

\* ------------------------------------------------------------------------
\* Specifications
\* ------------------------------------------------------------------------
vars == <<pageVars, fnVars, yrVars, anVars, deleteVars, downloadVars>>

\* The page: its load from the two documents of the storage service.
Init == PageInit /\ FnIdle /\ YrIdle /\ AnIdle /\ DeleteIdle /\ DownloadIdle

Next ==
    \/ DOMContentLoaded /\ UNCHANGED <<fnVars, yrVars, anVars, deleteVars, downloadVars>>
    \/ CustomOrderSettles /\ UNCHANGED <<fnVars, yrVars, anVars, deleteVars, downloadVars>>
    \/ ManifestSettles /\ UNCHANGED <<fnVars, yrVars, anVars, deleteVars, downloadVars>>

Spec == Init /\ [][Next]_vars

\* extractOriginalFilename on each key of FilenameInputs.
FilenameInit == PageIdle /\ FnInit /\ YrIdle /\ AnIdle /\ DeleteIdle /\ DownloadIdle

FilenameNext == ExtractOriginalFilename /\ UNCHANGED <<pageVars, yrVars, anVars, deleteVars, downloadVars>>

FilenameSpec == FilenameInit /\ [][FilenameNext]_vars

\* calculateYearsOfMemories on each pair of date values.
YearsInit == PageIdle /\ FnIdle /\ YrInit /\ AnIdle /\ DeleteIdle /\ DownloadIdle

YearsNext == CalculateYearsOfMemories /\ UNCHANGED <<pageVars, fnVars, anVars, deleteVars, downloadVars>>

YearsSpec == YearsInit /\ [][YearsNext]_vars

\* AnalyticsDisplay.init on each photo list, with each pair of responses, in
\* both orders of arrival.
AnalyticsInitial == PageIdle /\ FnIdle /\ YrIdle /\ AnInit /\ DeleteIdle /\ DownloadIdle

AnalyticsNext ==
    \/ AnalyticsInit /\ UNCHANGED <<pageVars, fnVars, yrVars, deleteVars, downloadVars>>
    \/ SettingsSettles /\ UNCHANGED <<pageVars, fnVars, yrVars, deleteVars, downloadVars>>
    \/ ProcessingSettles /\ UNCHANGED <<pageVars, fnVars, yrVars, deleteVars, downloadVars>>

AnalyticsSpec == AnalyticsInitial /\ [][AnalyticsNext]_vars

\* The loaded page under the user's reorders and deletes, with the responses
\* and the removal timers arriving in every order.
GalleryInitial ==
    SessionInit /\ FnIdle /\ YrIdle /\ AnIdle /\ DeleteIdle /\ DownloadIdle

GalleryNext ==
    \/ DragEnd /\ UNCHANGED <<fnVars, yrVars, anVars, downloadVars>>
    \/ DeleteClick /\ UNCHANGED <<fnVars, yrVars, anVars, downloadVars>>
    \/ DeleteSettles /\ UNCHANGED <<fnVars, yrVars, anVars, downloadVars>>
    \/ RemoveTimerFires /\ UNCHANGED <<fnVars, yrVars, anVars, downloadVars>>

GallerySpec == GalleryInitial /\ [][GalleryNext]_vars

\* The same with the timers of the browser taken into account: a callback
\* handed to setTimeout is run once its delay has passed.
GalleryLiveSpec ==
    /\ GalleryInitial
    /\ [][GalleryNext]_vars
    /\ WF_vars(RemoveTimerFires /\ UNCHANGED <<fnVars, yrVars, anVars, downloadVars>>)

\* The loaded page under the user's reorders and downloads, with the
\* responses and the banner timers arriving in every order.
DownloadInitial ==
    SessionInit /\ FnIdle /\ YrIdle /\ AnIdle /\ DeleteIdle /\ DownloadIdle

DownloadNext ==
    \/ DragEnd /\ UNCHANGED <<fnVars, yrVars, anVars, downloadVars>>
    \/ DownloadAll /\ UNCHANGED <<pageVars, fnVars, yrVars, anVars, deleteVars>>
    \/ ZipSettles /\ UNCHANGED <<pageVars, fnVars, yrVars, anVars, deleteVars>>
    \/ CloseThankYou /\ UNCHANGED <<pageVars, fnVars, yrVars, anVars, deleteVars>>
    \/ BannerClose /\ UNCHANGED <<pageVars, fnVars, yrVars, anVars, deleteVars>>
    \/ BannerTimerFires /\ UNCHANGED <<pageVars, fnVars, yrVars, anVars, deleteVars>>

DownloadSpec == DownloadInitial /\ [][DownloadNext]_vars

\* The whole page, from the DOMContentLoaded handler on: page load, then the
\* user's reorders, deletes and downloads, with AnalyticsDisplay.init called
\* on the loaded page (part_002 line 22: 'after photos are loaded') with the
\* page's photoOrder.  Every handler runs as in the other specifications;
\* each request is answered from a few responses that between them take each
\* branch of its handler.
SessionOrder == <<KeyA, KeyB>>
SessionOverrideResponses ==
    {Rejected,
     Parsed([t |-> "object", order |-> Arr([i \in 1..Len(SessionOrder) |-> Str(SessionOrder[i])])])}
SessionManifestResponses ==
    {Rejected, Parsed(Arr(<<[t |-> "object", final_key |-> Str(KeyA)]>>))}
SessionDeleteResponses ==
    {RejectedWith(FailedToFetch), RejectedWith(CorsMessage),
     HttpErrorWith([t |-> "object", success |-> Bool(FALSE)])}
SessionZipResponses ==
    {HttpError, Parsed([t |-> "object", success |-> Bool(TRUE), download_url |-> DownloadUrl])}
SessionSettingsResponses == {HttpError}
SessionProcessingResponses == {Rejected}

SessionInitial ==
    /\ PageInit /\ FnIdle /\ YrIdle /\ DeleteIdle /\ DownloadIdle
    /\ anPhotos = Arr(SessionOrder)
    /\ photoCountEl = TRUE
    /\ AnStart

\* AnalyticsDisplay.init(uid, photoOrder) on the loaded page.
AnalyticsOnPage ==
    /\ pc = "loaded"
    /\ anPhotos = Arr(photoOrder)
    /\ AnalyticsInit

SessionNext ==
    \/ DOMContentLoaded /\ UNCHANGED <<fnVars, yrVars, anVars, deleteVars, downloadVars>>
    \/ CustomOrderSettlesFrom(SessionOverrideResponses)
           /\ UNCHANGED <<fnVars, yrVars, anVars, deleteVars, downloadVars>>
    \/ ManifestSettlesFrom(SessionManifestResponses)
           /\ UNCHANGED <<fnVars, yrVars, anVars, deleteVars, downloadVars>>
    \/ AnalyticsOnPage /\ UNCHANGED <<pageVars, fnVars, yrVars, deleteVars, downloadVars>>
    \/ SettingsSettlesFrom(SessionSettingsResponses)
           /\ UNCHANGED <<pageVars, fnVars, yrVars, deleteVars, downloadVars>>
    \/ ProcessingSettlesFrom(SessionProcessingResponses)
           /\ UNCHANGED <<pageVars, fnVars, yrVars, deleteVars, downloadVars>>
    \/ DragEnd /\ UNCHANGED <<fnVars, yrVars, anVars, downloadVars>>
    \/ DeleteClick /\ UNCHANGED <<fnVars, yrVars, anVars, downloadVars>>
    \/ DeleteSettlesFrom(SessionDeleteResponses)
           /\ UNCHANGED <<fnVars, yrVars, anVars, downloadVars>>
    \/ RemoveTimerFires /\ UNCHANGED <<fnVars, yrVars, anVars, downloadVars>>
    \/ DownloadAll /\ UNCHANGED <<pageVars, fnVars, yrVars, anVars, deleteVars>>
    \/ ZipSettlesFrom(SessionZipResponses)
           /\ UNCHANGED <<pageVars, fnVars, yrVars, anVars, deleteVars>>
    \/ CloseThankYou /\ UNCHANGED <<pageVars, fnVars, yrVars, anVars, deleteVars>>
    \/ BannerClose /\ UNCHANGED <<pageVars, fnVars, yrVars, anVars, deleteVars>>
    \/ BannerTimerFires /\ UNCHANGED <<pageVars, fnVars, yrVars, anVars, deleteVars>>

SessionSpec == SessionInitial /\ [][SessionNext]_vars

\* The handlers that wait for a request (page load, deletePhoto,
\* downloadAll), with what the claim about their termination assumes: every
\* request issued settles (each delete request by itself: the user may go on
\* deleting other photos for ever), and the browser runs a timer's callback
\* once its delay has passed.
LifecycleNext ==
    \/ DOMContentLoaded /\ UNCHANGED <<fnVars, yrVars, anVars, deleteVars, downloadVars>>
    \/ CustomOrderSettlesFrom(SessionOverrideResponses)
           /\ UNCHANGED <<fnVars, yrVars, anVars, deleteVars, downloadVars>>
    \/ ManifestSettlesFrom(SessionManifestResponses)
           /\ UNCHANGED <<fnVars, yrVars, anVars, deleteVars, downloadVars>>
    \/ DeleteClick /\ UNCHANGED <<fnVars, yrVars, anVars, downloadVars>>
    \/ DeleteSettlesFrom(SessionDeleteResponses)
           /\ UNCHANGED <<fnVars, yrVars, anVars, downloadVars>>
    \/ RemoveTimerFires /\ UNCHANGED <<fnVars, yrVars, anVars, downloadVars>>
    \/ DownloadAll /\ UNCHANGED <<pageVars, fnVars, yrVars, anVars, deleteVars>>
    \/ ZipSettlesFrom(SessionZipResponses)
           /\ UNCHANGED <<pageVars, fnVars, yrVars, anVars, deleteVars>>

LifecycleLiveSpec ==
    /\ SessionInitial
    /\ [][LifecycleNext]_vars
    /\ WF_vars(CustomOrderSettlesFrom(SessionOverrideResponses)
                   /\ UNCHANGED <<fnVars, yrVars, anVars, deleteVars, downloadVars>>)
    /\ WF_vars(ManifestSettlesFrom(SessionManifestResponses)
                   /\ UNCHANGED <<fnVars, yrVars, anVars, deleteVars, downloadVars>>)
    /\ \A el \in 1..Len(SessionOrder) :
           WF_vars(DeleteSettlesFrom(SessionDeleteResponses) /\ deleteResp'.el = el
                       /\ UNCHANGED <<fnVars, yrVars, anVars, downloadVars>>)
    /\ WF_vars(RemoveTimerFires /\ UNCHANGED <<fnVars, yrVars, anVars, downloadVars>>)
    /\ WF_vars(ZipSettlesFrom(SessionZipResponses)
                   /\ UNCHANGED <<pageVars, fnVars, yrVars, anVars, deleteVars>>)

\* ------------------------------------------------------------------------
\* Properties of page load
\* ------------------------------------------------------------------------
OverrideSettled == overrideResp # NoResponse
ManifestSettled == manifestResp # NoResponse

\* The override document was fetched and parsed and its order field is a list
\* of key strings.
OverrideIsKeyList ==
    /\ OverrideSettled /\ ~FetchFailed(overrideResp)
    /\ overrideResp.data.t = "object"
    /\ IsArr(overrideResp.data.order)
    /\ \A i \in 1..Len(overrideResp.data.order.a) : IsStr(overrideResp.data.order.a[i])

OverrideKeys ==
    [i \in 1..Len(overrideResp.data.order.a) |-> overrideResp.data.order.a[i].s]

\* No override is available: its fetch failed, or the document holds no order
\* (the body is null, or the order field is missing or null).
OverrideUnavailable ==
    /\ OverrideSettled
    /\ \/ FetchFailed(overrideResp)
       \/ overrideResp.data.t = "null"
       \/ Prop(overrideResp.data, "order").t \in {"undefined", "null"}

\* The manifest entries that are candidates: objects whose final_key is a
\* non-empty string not ending in '.ready'.
IsCandidate(entry) ==
    /\ entry.t = "object"
    /\ IsStr(entry.final_key)
    /\ entry.final_key.s # <<>>
    /\ ~EndsWith(entry.final_key.s, ReadySuffix)

Occurrences(seq, x) == Cardinality({i \in 1..Len(seq) : seq[i] = x})

ManifestCandidates(key) ==
    Cardinality({i \in 1..Len(manifestResp.data.a) :
        /\ IsCandidate(manifestResp.data.a[i])
        /\ manifestResp.data.a[i].final_key.s = key})

\* The manifest was fetched and parsed and is a list of records whose
\* final_key is a string or is missing.
ManifestWellFormed ==
    /\ ManifestSettled /\ ~FetchFailed(manifestResp)
    /\ IsArr(manifestResp.data)
    /\ \A i \in 1..Len(manifestResp.data.a) :
        /\ manifestResp.data.a[i].t = "object"
        /\ manifestResp.data.a[i].final_key.t \in {"string", "undefined"}

InErrorState ==
    /\ style.errorState = "block"
    /\ style.loadingState = "none"
    /\ style.galleryContainer = "none"
    /\ style.downloadSection = "none"

\* C1: when the override document is fetched and its order field is a list of
\* N >= 0 keys, loadPhotos completes with photoOrder equal to that list,
\* element for element and in its order, and the manifest is never consulted.
C1_OverrideOrderVerbatim ==
    OverrideIsKeyList =>
        /\ pc = "loaded"
        /\ photoOrder = OverrideKeys
        /\ ~ManifestSettled

\* C1 witness: an override list of two keys that the file-name sort would
\* order the other way round has become photoOrder.
C1_Witness ==
    /\ OverrideIsKeyList
    /\ pc = "loaded"
    /\ photoOrder = <<KeyB, KeyA>>

\* C2: when no override is available and loadPhotos completes, photoOrder
\* holds exactly the final_key of every candidate manifest entry (each as
\* often as the manifest lists it, nothing else), in ascending order of the
\* file name under the comparison localeCompare makes.
C2_ManifestOrderSorted ==
    (OverrideUnavailable /\ pc = "loaded") =>
        /\ ManifestSettled
        /\ \A k \in PageKeys \cup {KeyReady, <<>>} :
               Occurrences(photoOrder, k) = ManifestCandidates(k)
        /\ \A i \in 1..Len(photoOrder) :
               photoOrder[i] \in PageKeys \cup {KeyReady, <<>>}
        /\ \A i, j \in 1..Len(photoOrder) :
               i < j => localeCompare(FileNameOf(photoOrder[i]),
                                      FileNameOf(photoOrder[j])) <= 0

\* C2 witness: a manifest listing a sentinel and three keys out of file-name
\* order was loaded; the sentinel is gone and the keys are sorted.
C2_Witness ==
    /\ OverrideUnavailable
    /\ pc = "loaded"
    /\ ManifestWellFormed
    /\ Len(manifestResp.data.a) = 3
    /\ manifestResp.data.a[1] = [t |-> "object", final_key |-> Str(KeyB)]
    /\ manifestResp.data.a[2] = [t |-> "object", final_key |-> Str(KeyReady)]
    /\ manifestResp.data.a[3] = [t |-> "object", final_key |-> Str(KeyD)]
    /\ photoOrder = <<KeyD, KeyB>>

\* C3: if the manifest fetch fails (rejection, non-2xx, unparsable body) the
\* page is in the error state from then on: error panel shown, loading
\* indicator, gallery and download section hidden, photoOrder empty.
C3_ManifestFailureIsFatal ==
    (ManifestSettled /\ FetchFailed(manifestResp)) =>
        /\ pc = "failed"
        /\ InErrorState
        /\ photoOrder = <<>>
        /\ gallery = <<>>

\* C3 witness: the manifest answered with a non-2xx status after the loading
\* indicator had been shown.
C3_Witness ==
    /\ manifestResp = HttpError
    /\ pc = "failed"
    /\ style.errorState = "block"

\* C4: if the override fetch fails (rejection, non-2xx, unparsable body) the
\* manifest is requested next, and the page ends in the error state only if
\* the manifest is at fault: with a well-formed manifest it shows the gallery.
C4_OverrideFailureFallsBack ==
    (OverrideSettled /\ FetchFailed(overrideResp)) =>
        /\ requests = <<"custom_order", "manifest">>
        /\ pc \in {"awaitManifest", "loaded", "failed"}
        /\ pc = "awaitManifest" => style.errorState # "block"
        /\ ManifestWellFormed => (pc = "loaded" /\ style.errorState # "block"
                                  /\ style.galleryContainer = "block")

\* C4 witness: the override request was rejected and the gallery was then
\* built from the manifest.
C4_Witness ==
    /\ overrideResp = Rejected
    /\ pc = "loaded"
    /\ photoOrder = <<KeyA, KeyB>>

\* The override document was fetched and parsed but its order field is
\* missing, is no list, or holds an element that is no string.
OverrideMalformed ==
    /\ OverrideSettled /\ ~FetchFailed(overrideResp)
    /\ overrideResp.data.t = "object"
    /\ ~OverrideIsKeyList

\* C5: an override document that is fetched but not well-formed is treated as
\* not present: the manifest is requested and the page ends in the error state
\* only if the manifest is at fault.
C5_MalformedOverrideFallsBack ==
    OverrideMalformed =>
        /\ "manifest" \in {requests[i] : i \in 1..Len(requests)}
        /\ ManifestWellFormed => pc = "loaded"

\* ------------------------------------------------------------------------
\* Properties of extractOriginalFilename
\* ------------------------------------------------------------------------
FnDone == fnResult # <<>>

\* The first underscore-separated token of a name.
FirstToken(name) == Split(name, "_")[1]

\* No underscore-separated token of the file name starts and ends with '|'.
HasNoMethodMarker(s3Key) ==
    LET parts == Split(FileNameOf(s3Key), "_")
    IN \A i \in 1..Len(parts) :
        ~(Len(parts[i]) >= 1 /\ parts[i][1] = "|" /\ parts[i][Len(parts[i])] = "|")

\* C6 as claimed: for every key of either generated form and every original
\* name, extractOriginalFilename returns the original name.
C6_DecodesEveryOriginalName ==
    (FnDone /\ fnInput.form \in {"plain", "exif"}) => fnResult[1] = fnInput.original

\* C6 amended: extractOriginalFilename returns the original name for every key
\* of the form with the x marker, and for every key of the form without it
\* whose original name does not have 'x' as its first underscore-separated
\* token.
C6_DecodesOriginalName ==
    (FnDone /\ (\/ fnInput.form = "exif"
                \/ (fnInput.form = "plain" /\ FirstToken(fnInput.original) # <<"x">>)))
        => fnResult[1] = fnInput.original

\* C6 witness: a key with the x marker whose original name itself begins with
\* 'x_' was decoded to that name.
C6_Witness ==
    /\ FnDone
    /\ fnInput.form = "exif"
    /\ fnInput.original = <<"x", "_", "a">>
    /\ fnResult[1] = <<"x", "_", "a">>

\* C7: for every key whose file name holds no token wrapped in pipes,
\* extractOriginalFilename returns the file name unchanged.
C7_NoMarkerReturnsFileName ==
    (FnDone /\ HasNoMethodMarker(fnInput.s3Key)) =>
        fnResult[1] = FileNameOf(fnInput.s3Key)

\* ------------------------------------------------------------------------
\* Properties of calculateYearsOfMemories
\* ------------------------------------------------------------------------
YrDone == yrResult # <<>>

IsDate(v) == "fullYear" \in DOMAIN v

\* C8: calculateYearsOfMemories returns death year minus birth year when both
\* dates are present and the difference is strictly positive, and null in
\* every other case (a date missing or empty or not a date, equal years, death
\* before birth); it never returns zero or a negative number.
C8_YearsOfMemories ==
    YrDone =>
        LET b == yrInput.val["birthdate"]
            d == yrInput.val["deathdate"]
        IN /\ IF IsDate(b) /\ IsDate(d) /\ d.fullYear - b.fullYear > 0
              THEN yrResult[1] = Num(d.fullYear - b.fullYear)
              ELSE yrResult[1] = Null
           /\ yrResult[1] = Null \/ (IsNum(yrResult[1]) /\ yrResult[1].n > 0)

\* C8 witness: a birth date and a later death date gave the difference of
\* their years.
C8_Witness ==
    /\ YrDone
    /\ yrInput.val["birthdate"] = DateStr(YearOf(0))
    /\ yrInput.val["deathdate"] = DateStr(YearOf(2))
    /\ yrResult = <<Num(2)>>

\* ------------------------------------------------------------------------
\* Properties of AnalyticsDisplay.init
\* ------------------------------------------------------------------------
AnDone == anPc = "done" /\ IsArr(anPhotos)

SettingsFields == {"birthdate", "deathdate", "deceasedName"}
ProcessingFields == {"totalFacesIndexed", "totalPhotosProcessed"}

BothFetchesFailed ==
    /\ settingsResp # NoResponse /\ FetchFailed(settingsResp)
    /\ processingResp # NoResponse /\ FetchFailed(processingResp)

\* The request succeeded and its body is a JSON object.
SourceOk(resp) == resp # NoResponse /\ ~FetchFailed(resp) /\ resp.data.t = "object"

IsNullish(v) == v.t \in {"null", "undefined"}

\* The file name of the key starts with the token of one of the buckets.
InSomeBucket(key) == \E token \in BucketTokens : StartsWith(FileNameOf(key), token)

NoKeyInBucket == \A i \in 1..Len(anPhotos.a) : ~InSomeBucket(anPhotos.a[i])

\* C9 as claimed: when both fetches fail, every aggregated field of the stats
\* record is null or absent and render inserts nothing, for every photo list.
C9_BothFailAllNullNoRender ==
    (AnDone /\ BothFetchesFailed) =>
        /\ Len(renderedStats) = 1
        /\ \A f \in StatFields \ {"photoCount"} : IsNullish(renderedStats[1].val[f])
        /\ analyticsBoxes = <<>>

\* C9 amended: when both fetches fail, the stats record holds no field of
\* either source, yearsOfMemories is null and photoCount is the length of the
\* photo list; the fields drawn from the file names are null and render
\* inserts nothing exactly when no key's file name starts with a bucket token;
\* when one does, ageRangeLabel is set and render inserts the analytics box
\* (given the page has a .photo-count element).
C9_BothFailStats ==
    (AnDone /\ BothFetchesFailed) =>
        /\ Len(renderedStats) = 1
        /\ renderedStats[1].keys \cap (SettingsFields \cup ProcessingFields) = {}
        /\ renderedStats[1].val["yearsOfMemories"] = Null
        /\ renderedStats[1].val["photoCount"] = Num(Len(anPhotos.a))
        /\ IF NoKeyInBucket
           THEN /\ renderedStats[1].val["ageRangeLabel"] = Null
                /\ renderedStats[1].val["bucketCounts"] = Null
                /\ analyticsBoxes = <<>>
           ELSE /\ IsStr(renderedStats[1].val["ageRangeLabel"])
                /\ Len(analyticsBoxes) = (IF photoCountEl THEN 1 ELSE 0)

\* C9 witness: both fetches failed for a list without any bucket key, and
\* nothing was inserted although the page has a .photo-count element.
C9_Witness ==
    /\ AnDone /\ BothFetchesFailed
    /\ anPhotos = Arr(<<PlainNameKey, UnknownBucketKey>>)
    /\ photoCountEl
    /\ Len(renderedStats) = 1
    /\ analyticsBoxes = <<>>

\* C10: a failed analytics fetch contributes an empty object and never aborts
\* the aggregation: render is handed a stats record whatever the two responses
\* are, with exactly one fetch failed the fields of the other source are in
\* that record, and init never rejects.
C10_FetchFailureContributesNothing ==
    /\ anOutcome # "rejected"
    /\ (settingsResp # NoResponse /\ FetchFailed(settingsResp))
           => settingsData = Fulfilled(EmptyStats)
    /\ (processingResp # NoResponse /\ FetchFailed(processingResp))
           => processingStats = Fulfilled(EmptyStats)
    /\ AnDone => (Len(renderedStats) = 1 /\ anOutcome = "fulfilled")
    /\ (AnDone /\ FetchFailed(settingsResp) /\ SourceOk(processingResp)) =>
           LET st == renderedStats[1]
               e == Prop(processingResp.data, "enhanced_processing_stats")
           IN /\ ProcessingFields \subseteq st.keys
              /\ st.keys \cap SettingsFields = {}
              /\ Truthy(Prop(e, "total_faces_indexed"))
                     => st.val["totalFacesIndexed"] = e.total_faces_indexed
              /\ Truthy(Prop(e, "total_photos"))
                     => st.val["totalPhotosProcessed"] = e.total_photos
    /\ (AnDone /\ FetchFailed(processingResp) /\ SourceOk(settingsResp)) =>
           LET st == renderedStats[1]
               d == settingsResp.data
           IN /\ SettingsFields \subseteq st.keys
              /\ st.keys \cap ProcessingFields = {}
              /\ Truthy(d.birthdate) => st.val["birthdate"] = d.birthdate
              /\ Truthy(d.deathdate) => st.val["deathdate"] = d.deathdate
              /\ Truthy(d.deceased_first_name)
                     => st.val["deceasedName"] = d.deceased_first_name

\* C10 witness: the settings request was rejected, the processing statistics
\* arrived, and render was handed a record with the face count.
C10_Witness ==
    /\ AnDone
    /\ settingsResp = Rejected
    /\ SourceOk(processingResp)
    /\ Len(renderedStats) = 1
    /\ renderedStats[1].val["totalFacesIndexed"] = Num(5)
    /\ "birthdate" \notin renderedStats[1].keys


SettingsSettled == settingsResp # NoResponse
ProcessingSettled == processingResp # NoResponse
BothRequests == <<"presentation_settings", "pre_merge_data">>

\* C11: both requests are issued in the step in which init starts, before
\* either has settled; while only one of them has settled, in either order,
\* nothing is merged or rendered and init is still waiting; once both have
\* settled init has finished with exactly one call of render; render is never
\* called twice.
C11_JoinAfterBothSettle ==
    /\ (anPc = "fetching" \/ SettingsSettled \/ ProcessingSettled)
           => anRequests = BothRequests
    /\ (SettingsSettled # ProcessingSettled) =>
           /\ anPc = "fetching"
           /\ renderedStats = <<>>
           /\ analyticsBoxes = <<>>
           /\ anOutcome = "pending"
    /\ (SettingsSettled /\ ProcessingSettled) =>
           /\ anPc = "done"
           /\ Len(renderedStats) = 1
    /\ renderedStats # <<>> => (SettingsSettled /\ ProcessingSettled)
    /\ Len(renderedStats) <= 1
    /\ Len(analyticsBoxes) <= 1

\* C11 witness: the request issued second has settled, with data that alone
\* would pass render's gate, while the one issued first is still pending, and
\* nothing has been rendered.
C11_Witness ==
    /\ anPc = "fetching"
    /\ anRequests = BothRequests
    /\ ~SettingsSettled
    /\ ProcessingSettled /\ SourceOk(processingResp)
    /\ anPhotos = Arr(<<BucketKeyA>>)
    /\ renderedStats = <<>>


HeadlineFields == {"yearsOfMemories", "totalFacesIndexed", "ageRangeLabel"}

\* C12: an analytics box is in the page only if the stats record handed to
\* render has a non-null years-of-memories, face count or age-range label;
\* when all three are null or absent, nothing was inserted.
C12_RenderGate ==
    /\ analyticsBoxes # <<>> =>
           /\ Len(renderedStats) = 1
           /\ \E f \in HeadlineFields : ~IsNullish(renderedStats[1].val[f])
    /\ (AnDone /\ Len(renderedStats) = 1
            /\ \A f \in HeadlineFields : IsNullish(renderedStats[1].val[f]))
           => analyticsBoxes = <<>>

\* C12 witness: with no bucket-named file and no face count, the years of
\* memories alone put the box into the page.
C12_Witness ==
    /\ AnDone
    /\ Len(renderedStats) = 1
    /\ renderedStats[1].val["yearsOfMemories"] = Num(1)
    /\ IsNullish(renderedStats[1].val["ageRangeLabel"])
    /\ IsNullish(renderedStats[1].val["totalFacesIndexed"])
    /\ Len(analyticsBoxes) = 1

\* The gate is narrower than the three figures: a face count alone does not
\* pass it.
C12_FaceCountAloneInsertsNothing ==
    (AnDone /\ Len(renderedStats) = 1
        /\ IsNullish(renderedStats[1].val["yearsOfMemories"])
        /\ IsNullish(renderedStats[1].val["ageRangeLabel"]))
        => analyticsBoxes = <<>>


\* ------------------------------------------------------------------------
\* Properties of parseFilenames
\* ------------------------------------------------------------------------
FilenamesParsed == anPc \in {"fetching", "done"} /\ IsArr(anPhotos)

\* The number of keys of the photo list whose file name starts with the token.
KeysInBucket(token) ==
    Cardinality({i \in 1..Len(anPhotos.a) : StartsWith(FileNameOf(anPhotos.a[i]), token)})

BucketsInUse == {i \in 1..Len(bucketOrder) : KeysInBucket(bucketOrder[i]) > 0}

SumOfCounts(counts) ==
    LET RECURSIVE S(_)
        S(i) == IF i > Len(bucketOrder) THEN 0 ELSE counts[bucketOrder[i]] + S(i + 1)
    IN S(1)

\* C18: parseFilenames counts, for each of the 11 buckets, the keys whose file
\* name starts with the bucket's token; youngestBucket and oldestBucket are
\* the first and the last bucket in enumeration order with a count above zero,
\* so youngest never comes after oldest; the counts sum to at most the number
\* of keys; when no key is in any bucket, ageRangeLabel and bucketCounts are
\* null and no youngest or oldest bucket is reported.
C18_BucketCounts ==
    FilenamesParsed =>
        IF BucketsInUse = {}
        THEN /\ filenameStats.val["ageRangeLabel"] = Null
             /\ filenameStats.val["bucketCounts"] = Null
             /\ filenameStats.keys = {"ageRangeLabel", "bucketCounts"}
        ELSE /\ filenameStats.val["bucketCounts"].t = "object"
             /\ {"youngestBucket", "oldestBucket"} \subseteq filenameStats.keys
             /\ LET counts == filenameStats.val["bucketCounts"].counts
                     first == CHOOSE i \in BucketsInUse : \A j \in BucketsInUse : i <= j
                     last == CHOOSE i \in BucketsInUse : \A j \in BucketsInUse : i >= j
                 IN /\ Len(bucketOrder) = 11
                    /\ DOMAIN counts = BucketTokens
                    /\ \A token \in BucketTokens : counts[token] = KeysInBucket(token)
                    /\ filenameStats.val["youngestBucket"] = Str(bucketOrder[first])
                    /\ filenameStats.val["oldestBucket"] = Str(bucketOrder[last])
                    /\ BucketIndex(filenameStats.val["youngestBucket"].s)
                           <= BucketIndex(filenameStats.val["oldestBucket"].s)
                    /\ SumOfCounts(counts) <= Len(anPhotos.a)
                    /\ IsStr(filenameStats.val["ageRangeLabel"])

\* C18 witness: a list whose first key is in the last bucket and whose second
\* key, under a directory, is in the first bucket.
C18_Witness ==
    /\ FilenamesParsed
    /\ anPhotos = Arr(<<BucketKeyB, BucketKeyA>>)
    /\ filenameStats.val["youngestBucket"] = Str(<<"0", "1", "-", "0", "5">>)
    /\ filenameStats.val["oldestBucket"] = Str(<<"8", "1", "+">>)


\* ------------------------------------------------------------------------
\* Properties of the order of the requests of page load
\* ------------------------------------------------------------------------
InGalleryState ==
    /\ pc = "loaded"
    /\ style.galleryContainer = "block"
    /\ style.loadingState = "none"
    /\ style.errorState # "block"

\* C19: the override request is the first request of page load; the manifest
\* request is issued only once the override request has settled without
\* yielding a list of keys, and never before; when the override yields a list
\* of keys the manifest is never requested and the page is in the gallery
\* state, whatever the manifest would have answered.
C19_OverrideBeforeManifest ==
    /\ requests \in {<<>>, <<"custom_order">>, <<"custom_order", "manifest">>}
    /\ ~OverrideSettled => requests \in {<<>>, <<"custom_order">>}
    /\ requests = <<"custom_order", "manifest">> =>
           (OverrideSettled /\ ~OverrideIsKeyList)
    /\ ManifestSettled => requests = <<"custom_order", "manifest">>
    /\ OverrideIsKeyList =>
           /\ requests = <<"custom_order">>
           /\ manifestResp = NoResponse
           /\ InGalleryState

\* C19 witness: an override list of one key put the page into the gallery
\* state with the override request as the only request made.
C19_Witness ==
    /\ OverrideIsKeyList
    /\ Len(overrideResp.data.order.a) = 1
    /\ requests = <<"custom_order">>
    /\ InGalleryState
    /\ Len(gallery) = 1


\* ------------------------------------------------------------------------
\* Properties of reordering and downloading
\* ------------------------------------------------------------------------
ItemEls(items) == [i \in 1..Len(items) |-> items[i].el]

\* The step is a drag-end that took the child at position old to position new.
IsDragStep(old, new) ==
    /\ old # new
    /\ old < Len(gallery) /\ new < Len(gallery)
    /\ ItemEls(gallery') = SortableMove(ItemEls(gallery), old, new)

\* The step is an invocation of downloadAll.
IsDownloadStep == zipRequestCount' = zipRequestCount + 1

\* C13: for a photoOrder of length n and positions old # new below n, a
\* drag-end (old, new) leaves photoOrder with the element that was at old now
\* at new and all the others in the order they had; an invocation of
\* downloadAll sends one request whose body holds the uid and, as
\* photo_order, photoOrder as it then is, element for element.
C13_DragThenDownload ==
    [][ /\ \A old \in 0..(Len(photoOrder) - 1), new \in 0..(Len(photoOrder) - 1) :
            IsDragStep(old, new) =>
                /\ Len(photoOrder') = Len(photoOrder)
                /\ photoOrder'[new + 1] = photoOrder[old + 1]
                /\ RemoveAt(photoOrder', new + 1) = RemoveAt(photoOrder, old + 1)
        /\ IsDownloadStep =>
            /\ Len(zipInFlight') = Len(zipInFlight) + 1
            /\ LET body == zipInFlight'[Len(zipInFlight')].body
               IN /\ body.uid = uid
                  /\ Len(body.photo_order.a) = Len(photoOrder)
                  /\ \A i \in 1..Len(photoOrder) :
                         body.photo_order.a[i] = Str(photoOrder[i])
      ]_vars

\* C13 witness: the third of three photos was dragged to the front and the
\* download request in flight carries the new order.
C13_Witness ==
    /\ overrideResp.data.order = Arr(<<Str(KeyA), Str(KeyA), Str(KeyB)>>)
    /\ ItemEls(gallery) = <<3, 1, 2>>
    /\ photoOrder = <<KeyB, KeyA, KeyA>>
    /\ Len(zipInFlight) = 1
    /\ zipInFlight[1].body =
           [t |-> "object", uid |-> SessionUid,
            photo_order |-> Arr(<<Str(KeyB), Str(KeyA), Str(KeyA)>>)]

\* The zip request failed in one of the four ways: fetch rejected, the status
\* was not 2xx, the success flag is false, or the download URL is missing.
ZipFailed(resp) ==
    \/ resp.settled = "rejected"
    \/ ~resp.ok
    \/ /\ resp.parsable /\ resp.data.t = "object"
       /\ \/ Prop(resp.data, "success") = Bool(FALSE)
          \/ Prop(resp.data, "download_url") = Undef

\* The step is the completion of a zip request.
IsZipSettleStep == Len(zipInFlight') = Len(zipInFlight) - 1

\* C15: the number of zip requests goes up only in an invocation of
\* downloadAll, by exactly one; when a zip request fails, that step puts
\* exactly one more error banner into the page, shows no overlay, does not
\* navigate and issues no request.
C15_OneRequestOneBanner ==
    [][ /\ zipRequestCount' # zipRequestCount =>
            /\ zipRequestCount' = zipRequestCount + 1
            /\ Len(zipInFlight') = Len(zipInFlight) + 1
            /\ downloadBtns'.disabled
        /\ Len(zipInFlight') > Len(zipInFlight) => IsDownloadStep
        /\ (IsZipSettleStep /\ ZipFailed(zipResp')) =>
            /\ BannersShown' = BannersShown + 1
            /\ Len(banners') = Len(banners) + 1
            /\ overlays' = overlays
            /\ currentThankYouOverlay' = currentThankYouOverlay
            /\ location' = location
            /\ zipRequestCount' = zipRequestCount
      ]_vars

\* C15 witness: the one download made so far was answered with a false
\* success flag; one banner is in the page, no overlay, the page has not
\* navigated, and no request is in flight.
C15_Witness ==
    /\ zipRequestCount = 1
    /\ zipInFlight = <<>>
    /\ zipResp = Parsed([t |-> "object", success |-> Bool(FALSE),
                         download_url |-> DownloadUrl])
    /\ BannersShown = 1
    /\ overlays = 0
    /\ location = PageUrl


\* C16: photoOrder never holds a storage key more than once.
C16_NoDuplicateKeys ==
    \A i \in 1..Len(photoOrder), j \in 1..Len(photoOrder) :
        (i # j /\ photoOrder[i] # UndefinedEntry) => photoOrder[i] # photoOrder[j]


\* ------------------------------------------------------------------------
\* Properties of deleting
\* ------------------------------------------------------------------------
InGallery(items, el) == \E i \in 1..Len(items) : items[i].el = el
ItemOf(items, el) == items[CHOOSE i \in 1..Len(items) : items[i].el = el]

\* The step is the completion of a delete request, and the request it
\* completes.
IsDeleteSettleStep ==
    /\ deletesInFlight' # deletesInFlight
    /\ deletesInFlight' \subseteq deletesInFlight
SettledDelete == CHOOSE req \in deletesInFlight \ deletesInFlight' : TRUE

\* The confirmation of the delete cannot be read: the body does not parse, or
\* fetch rejected with a message containing 'CORS' or 'NetworkError'.
ConfirmationUnreadable(resp) ==
    \/ resp.settled = "resolved" /\ ~resp.parsable
    \/ /\ resp.settled = "rejected"
       /\ (Includes(resp.message, CorsToken) \/ Includes(resp.message, NetworkErrorToken))

\* The photo item is on its way out: shrunk, with its removal timer running.
Leaving(items, el) ==
    /\ InGallery(items, el)
    /\ ItemOf(items, el).removeTimer
    /\ ItemOf(items, el).transform = "scale(0)"

\* C14: when a delete request completes with a confirmation that cannot be
\* read, that step takes one entry equal to the key out of photoOrder and
\* sets the item's removal going; the item then leaves the gallery.
C14_UnreadableConfirmationDeletes ==
    /\ [][ (IsDeleteSettleStep /\ ConfirmationUnreadable(deleteResp'.resp)) =>
              /\ Len(photoOrder') = Len(photoOrder) - 1
              /\ Occurrences(photoOrder', SettledDelete.s3_key)
                     = Occurrences(photoOrder, SettledDelete.s3_key) - 1
              /\ Leaving(gallery', SettledDelete.el)
         ]_vars
    /\ \A el \in 1..MaxItems :
           (deleteResp.el = el /\ ConfirmationUnreadable(deleteResp.resp)
                /\ Leaving(gallery, el))
               ~> ~InGallery(gallery, el)

\* C14 witness: the delete of the first of two photos was answered with a
\* body that does not parse; its key and its item are gone and the count
\* shown is one.
C14_Witness ==
    /\ overrideResp.data.order = Arr(<<Str(KeyA), Str(KeyB)>>)
    /\ deleteResp = [el |-> 1, resp |-> Unparsable]
    /\ photoOrder = <<KeyB>>
    /\ ItemEls(gallery) = <<2>>
    /\ photoCount = <<1>>

\* C17: photoOrder changes only in the step of one drag-end or of one
\* delete completion; a delete completion that applies removes exactly one
\* entry, one equal to its key as photoOrder stands at that moment, and leaves
\* all the other entries in their order, whatever drags and other delete
\* completions came between its request and its completion; one that does not
\* apply leaves photoOrder as it is.
C17_DeleteRemovesByValue ==
    [][ /\ photoOrder' # photoOrder =>
            \/ IsDeleteSettleStep
            \/ \E old \in 0..(Len(gallery) - 1), new \in 0..(Len(gallery) - 1) :
                   IsDragStep(old, new)
        /\ (IsDeleteSettleStep /\ Leaving(gallery', SettledDelete.el)) =>
            \E p \in 1..Len(photoOrder) :
                /\ photoOrder[p] = SettledDelete.s3_key
                /\ photoOrder' = RemoveAt(photoOrder, p)
        /\ (IsDeleteSettleStep /\ ~Leaving(gallery', SettledDelete.el)) =>
            photoOrder' = photoOrder
      ]_vars

\* C17 witness: of three photos, two of them with the same key, the third
\* was deleted; it was dragged to the front before its delete completed, and
\* the completion took out one entry of its key and left the two others.
C17_Witness ==
    /\ overrideResp.data.order = Arr(<<Str(KeyA), Str(KeyB), Str(KeyA)>>)
    /\ ItemEls(gallery) = <<3, 1, 2>>
    /\ Leaving(gallery, 3)
    /\ deleteResp.el = 3
    /\ deletesInFlight = {}
    /\ photoOrder = <<KeyA, KeyB>>

\* C20: when the delete's fetch rejects with a message containing neither
\* 'CORS' nor 'NetworkError', that step leaves photoOrder and the gallery's
\* items where they are, takes the deleting state off the item and enables
\* its delete button again, with its label restored.
C20_OtherRejectionResets ==
    [][ (/\ IsDeleteSettleStep
         /\ deleteResp'.resp.settled = "rejected"
         /\ ~Includes(deleteResp'.resp.message, CorsToken)
         /\ ~Includes(deleteResp'.resp.message, NetworkErrorToken)) =>
            /\ photoOrder' = photoOrder
            /\ ItemEls(gallery') = ItemEls(gallery)
            /\ photoCount' = photoCount
            /\ ItemOf(gallery', SettledDelete.el) =
                   [ItemOf(gallery, SettledDelete.el) EXCEPT
                       !.deleting = FALSE, !.buttonDisabled = FALSE, !.buttonText = "x"]
            /\ ~ItemOf(gallery', SettledDelete.el).removeTimer
            /\ ItemOf(gallery', SettledDelete.el).transform = ""
      ]_vars

\* C20 witness: the delete of the only photo was rejected with 'Failed to
\* fetch'; the photo is still there and its delete has been requested again.
C20_Witness ==
    /\ overrideResp.data.order = Arr(<<Str(KeyA)>>)
    /\ deleteResp = [el |-> 1, resp |-> RejectedWith(FailedToFetch)]
    /\ photoOrder = <<KeyA>>
    /\ ItemEls(gallery) = <<1>>
    /\ \E req \in deletesInFlight : req.el = 1


\* ------------------------------------------------------------------------
\* Properties of photoOrder and the gallery under overlapping handlers
\* ------------------------------------------------------------------------
\* The keys page load put into photoOrder (LoadedWith: the order list of
\* custom_order.json).
LoadedKeys ==
    [i \in 1..Len(overrideResp.data.order.a) |-> overrideResp.data.order.a[i].s]

Range(seq) == {seq[i] : i \in 1..Len(seq)}

\* Page load listed no key twice.
LoadedDistinct == Cardinality(Range(LoadedKeys)) = Len(LoadedKeys)

TimerPending == \E i \in 1..Len(gallery) : gallery[i].removeTimer

\* The deletes applied so far: the items already removed from the gallery
\* and those whose removal timer is pending.
DeletesApplied ==
    (Len(LoadedKeys) - Len(gallery))
        + Cardinality({i \in 1..Len(gallery) : gallery[i].removeTimer})

\* C22: after a successful load every element of photoOrder is one of the
\* loaded keys, and photoOrder is as long as the loaded list less the deletes
\* applied so far, whatever the interleaving of drags and delete completions.
\* Stated for the loads that list no key twice.
C22_OrderHoldsLoadedKeys ==
    (pc = "loaded" /\ LoadedDistinct) =>
        /\ Range(photoOrder) \subseteq Range(LoadedKeys)
        /\ Len(photoOrder) = Len(LoadedKeys) - DeletesApplied

ItemKeys(items) == [i \in 1..Len(items) |-> items[i].s3Key]

\* C23: whenever no removal timer is pending, the storage keys of the photo
\* items in DOM order are photoOrder.  Stated for the loads that list no key
\* twice.
C23_GalleryMatchesOrder ==
    (pc = "loaded" /\ LoadedDistinct /\ ~TimerPending) =>
        ItemKeys(gallery) = photoOrder

\* C29: once every delete has settled and every removal timer has fired
\* after at least one applied delete, the displayed count is
\* photoOrder.length and the number of photo items, and the badges count
\* from 1 in DOM order.  Stated for the loads that list no key twice.
C29_CountAndBadgesAgree ==
    (/\ pc = "loaded"
     /\ LoadedDistinct
     /\ deletesInFlight = {}
     /\ ~TimerPending
     /\ Len(gallery) < Len(LoadedKeys)) =>
        /\ photoCount = <<Len(photoOrder)>>
        /\ Len(photoOrder) = Len(gallery)
        /\ \A i \in 1..Len(gallery) : gallery[i].number = i


\* ------------------------------------------------------------------------
\* Properties of overlapping downloads and of the thank-you overlay
\* ------------------------------------------------------------------------
\* C24: whenever no zip request is in flight, the download buttons are
\* enabled and show the label they had before the first download, also after
\* downloadAll was invoked again while an earlier invocation was in flight.
C24_ButtonsRestored ==
    (pc = "loaded" /\ zipInFlight = <<>>) =>
        /\ ~downloadBtns.disabled
        /\ downloadBtns.text = ButtonLabel

\* C25: after closeThankYou has run no thank-you overlay remains in the
\* page.  closeThankYou leaves window.currentThankYouOverlay null and every
\* successful download sets it, so the global is null exactly when no
\* download has succeeded since the last close.
C25_CloseLeavesNoOverlay ==
    ~currentThankYouOverlay => overlays = 0


\* ------------------------------------------------------------------------
\* Properties of a delete whose answer reports failure
\* ------------------------------------------------------------------------
\* C26: whenever the delete request's fetch resolves, whatever the HTTP
\* status and whatever the success flag of a readable body, that step takes
\* the first entry equal to the key out of photoOrder and sets the item's
\* removal going, changing nothing else of the item; the item then leaves
\* the gallery.
C26_ResolvedDeleteAlwaysApplies ==
    /\ [][ (IsDeleteSettleStep /\ deleteResp'.resp.settled = "resolved") =>
              /\ \E p \in 1..Len(photoOrder) :
                    /\ photoOrder[p] = SettledDelete.s3_key
                    /\ \A q \in 1..(p - 1) : photoOrder[q] # SettledDelete.s3_key
                    /\ photoOrder' = RemoveAt(photoOrder, p)
              /\ ItemEls(gallery') = ItemEls(gallery)
              /\ ItemOf(gallery', SettledDelete.el) =
                     [ItemOf(gallery, SettledDelete.el) EXCEPT
                         !.transform = "scale(0)", !.removeTimer = TRUE]
         ]_vars
    /\ \A el \in 1..MaxItems :
           (deleteResp.el = el /\ deleteResp.resp.settled = "resolved"
                /\ Leaving(gallery, el))
               ~> ~InGallery(gallery, el)

\* C26 witness: the delete of the first of two photos was answered 500 with
\* a body saying success: false; its key and its item are gone.
C26_Witness ==
    /\ overrideResp.data.order = Arr(<<Str(KeyA), Str(KeyB)>>)
    /\ deleteResp = [el |-> 1,
                     resp |-> HttpErrorWith([t |-> "object", success |-> Bool(FALSE)])]
    /\ photoOrder = <<KeyB>>
    /\ ItemEls(gallery) = <<2>>
    /\ photoCount = <<1>>


\* ------------------------------------------------------------------------
\* Properties of the page's three panels
\* ------------------------------------------------------------------------
LoadingShown == style.loadingState = "block"
ErrorShown == style.errorState = "block"
\* The gallery with the download section.
GalleryShown == style.galleryContainer = "block" /\ style.downloadSection = "block"
GalleryPartShown == style.galleryContainer = "block" \/ style.downloadSection = "block"

PanelsShown ==
    (IF LoadingShown THEN 1 ELSE 0) + (IF GalleryPartShown THEN 1 ELSE 0)
        + (IF ErrorShown THEN 1 ELSE 0)

\* C28: once the DOMContentLoaded handler has run, at most one of the
\* loading indicator, the gallery with its download section and the error
\* panel is visible; the loading indicator stays until the load ends and
\* then gives way to exactly one of the other two, which stays for good; and
\* without a uid the error panel is shown and no request is issued.
C28_OnePanelAtATime ==
    /\ [](pc # "init" =>
            /\ PanelsShown = 1
            /\ GalleryPartShown => GalleryShown
            /\ pc \in {"awaitCustomOrder", "awaitManifest"} <=> LoadingShown
            /\ pc = "loaded" <=> GalleryShown
            /\ pc = "failed" <=> ErrorShown
            /\ ~Truthy(uid) => (ErrorShown /\ requests = <<>>))
    /\ [][ /\ GalleryShown => GalleryShown'
           /\ ErrorShown => ErrorShown'
           /\ (LoadingShown /\ ~LoadingShown') => (GalleryShown' \/ ErrorShown')
           /\ (pc = "init" /\ pc' # "init" /\ Truthy(uid)) => LoadingShown'
         ]_vars

\* C28 witness: the manifest request failed after the loading indicator had
\* been up for two requests; the error panel alone is visible.
C28_Witness ==
    /\ requests = <<"custom_order", "manifest">>
    /\ manifestResp = Rejected
    /\ pc = "failed"
    /\ ErrorShown
    /\ ~LoadingShown
    /\ ~GalleryPartShown


\* ------------------------------------------------------------------------
\* Properties of the whole page
\* ------------------------------------------------------------------------
\* The step is the end of a page load that shows the gallery.
IsLoadStep == pc \in {"awaitCustomOrder", "awaitManifest"} /\ pc' = "loaded"

\* The step is a drag-end with oldIndex # newIndex.
IsReorderStep ==
    \E old \in 0..(Len(gallery) - 1), new \in 0..(Len(gallery) - 1) :
        IsDragStep(old, new)

\* The step is the completion of a delete request that is treated as
\* successful, and of one that is not.
IsAppliedDeleteStep == IsDeleteSettleStep /\ Leaving(gallery', SettledDelete.el)
IsRefusedDeleteStep == IsDeleteSettleStep /\ ~Leaving(gallery', SettledDelete.el)

\* The step is a confirmed click on a delete button, a run of closeThankYou
\* that removes an overlay, a step of AnalyticsDisplay.init.
IsDeleteClickStep ==
    deletesInFlight \subseteq deletesInFlight' /\ deletesInFlight' # deletesInFlight
IsCloseStep == overlays' = overlays - 1
IsAnalyticsStep == anVars' # anVars

\* C21: photoOrder changes only in the step that ends page load, in a
\* drag-end with oldIndex # newIndex and in the completion of a delete that
\* is treated as successful.  An invocation of downloadAll and its
\* completion (whether it succeeded or failed), closeThankYou,
\* AnalyticsDisplay.init, a confirmed delete click, and the completion of a
\* delete rejected with a non-CORS error leave it as it is.  (A drag-end with
\* oldIndex = newIndex and a delete cancelled at the prompt change nothing at
\* all: they are the steps that leave every variable unchanged.)
C21_OnlyLoadDragDeleteChangeOrder ==
    [][ /\ photoOrder' # photoOrder =>
            (IsLoadStep \/ IsReorderStep \/ IsAppliedDeleteStep)
        /\ (\/ IsDownloadStep
            \/ IsZipSettleStep
            \/ IsCloseStep
            \/ IsAnalyticsStep
            \/ IsDeleteClickStep
            \/ IsRefusedDeleteStep) => photoOrder' = photoOrder
      ]_vars

\* C21 witness: on the page loaded with two photos the analytics have run, a
\* download has succeeded and its overlay has been closed, another download
\* has failed, and the delete of the first photo was rejected with 'Failed to
\* fetch'; photoOrder is still the loaded order.
C21_Witness ==
    /\ pc = "loaded"
    /\ photoOrder = SessionOrder
    /\ ItemEls(gallery) = <<1, 2>>
    /\ anPc = "done"
    /\ location = DownloadUrl
    /\ overlays = 0
    /\ zipResp = HttpError
    /\ zipInFlight = <<>>
    /\ deleteResp = [el |-> 1, resp |-> RejectedWith(FailedToFetch)]
    /\ deletesInFlight = {}


\* C27: the photo_order a downloadAll invocation submits is photoOrder as it
\* is at that instant, element for element, so it holds every key whose
\* delete request is then still in flight; the requests already in flight
\* keep what they submitted through every later reorder and delete
\* completion, until they settle.
C27_SubmittedOrderIsSnapshot ==
    [][ /\ IsDownloadStep =>
            LET body == zipInFlight'[Len(zipInFlight')].body
            IN /\ zipInFlight' = Append(zipInFlight, zipInFlight'[Len(zipInFlight')])
               /\ Len(body.photo_order.a) = Len(photoOrder)
               /\ \A i \in 1..Len(photoOrder) :
                      body.photo_order.a[i] =
                          IF photoOrder[i] = UndefinedEntry THEN Null
                          ELSE Str(photoOrder[i])
               /\ \A req \in deletesInFlight :
                      Str(req.s3_key) \in Range(body.photo_order.a)
        /\ (IsReorderStep \/ IsDeleteSettleStep \/ IsDeleteClickStep) =>
            zipInFlight' = zipInFlight
        /\ zipInFlight' # zipInFlight =>
            \/ IsDownloadStep
            \/ \E i \in 1..Len(zipInFlight) : zipInFlight' = RemoveAt(zipInFlight, i)
      ]_vars

\* C27 witness: a download was requested while the delete of the second of
\* two photos was in flight; since then that delete has been applied and its
\* item removed, and the request still in flight carries both keys.
C27_Witness ==
    /\ pc = "loaded"
    /\ Len(zipInFlight) = 1
    /\ zipRequestCount = 1
    /\ zipInFlight[1].body.photo_order = Arr(<<Str(KeyA), Str(KeyB)>>)
    /\ photoOrder = <<KeyA>>
    /\ ItemEls(gallery) = <<1>>
    /\ deleteResp = [el |-> 2, resp |-> RejectedWith(CorsMessage)]


\* ------------------------------------------------------------------------
\* Properties of termination
\* ------------------------------------------------------------------------
Loading == pc \in {"awaitCustomOrder", "awaitManifest"}

\* The download buttons are in the state downloadAll puts them in while it
\* waits: disabled, or labelled 'Preparing download...'.
DownloadBusy == downloadBtns.disabled \/ downloadBtns.text = BusyLabel

\* The delete of the photo item is over: the item has left the gallery, or
\* it is back in its normal state with its button enabled.
DeleteOver(el) ==
    \/ ~InGallery(gallery, el)
    \/ /\ ~ItemOf(gallery, el).deleting
       /\ ~ItemOf(gallery, el).buttonDisabled
       /\ ItemOf(gallery, el).buttonText = "x"

\* C30: provided every request settles, page load leaves the loading state
\* for the gallery or the error panel; every downloadAll invocation is
\* followed by a state with no zip request in flight and the download
\* buttons neither disabled nor labelled as busy; every deletePhoto
\* invocation is followed by a state in which its item is gone or its button
\* is enabled again.
C30_HandlersFinish ==
    /\ Loading ~> (pc \in {"loaded", "failed"} /\ ~LoadingShown
                       /\ (GalleryShown \/ ErrorShown))
    /\ (zipInFlight # <<>>) ~> (zipInFlight = <<>> /\ ~DownloadBusy)
    /\ \A el \in 1..Len(SessionOrder) :
           (\E req \in deletesInFlight : req.el = el) ~> DeleteOver(el)

\* The same with the disabled flag alone taken for the busy state of the
\* download buttons; this one holds.
HandlersFinishEnabled ==
    /\ Loading ~> (pc \in {"loaded", "failed"} /\ ~LoadingShown
                       /\ (GalleryShown \/ ErrorShown))
    /\ (zipInFlight # <<>>) ~> (zipInFlight = <<>> /\ ~downloadBtns.disabled)
    /\ \A el \in 1..Len(SessionOrder) :
           (\E req \in deletesInFlight : req.el = el) ~> DeleteOver(el)

====
